---- MODULE Spec2Model ----
(***************************************************************************)
(* Model of the spell scanner (plugin/src/SpellScanner.cpp): the UTF-8     *)
(* sanitizer, the non-player-spell classifier, the scan-configuration      *)
(* parser, the full spell scan and the spell-tome scan.                    *)
(*                                                                         *)
(* Strings are sequences of bytes (0..255), as std::string holds them.     *)
(***************************************************************************)
EXTENDS Integers, Sequences, FiniteSets, TLC

VARIABLES
    sanPc,        \* Sanitizer driver: "call", "returned", "resanitized"
    sanInput,     \* the byte string handed to SanitizeToUTF8
    sanResult,    \* what SanitizeToUTF8(sanInput) returned
    sanSecond,    \* what SanitizeToUTF8(sanResult) returned
    clsPc,        \* Classifier driver: "call", "returned"
    clsEditorId,  \* the editorId handed to isNonPlayerSpell
    clsVariant,   \* the same editorId in another letter case
    clsResult,    \* isNonPlayerSpell(clsEditorId)
    clsVariantResult,  \* isNonPlayerSpell(clsVariant)
    cfgPc,        \* Config parser driver: "call", "returned"
    cfgDoc,       \* the configuration text handed to ParseScanConfig
    cfgResult,    \* the ScanConfig it returned
    cfgFieldResult,  \* the FieldConfig ParseFieldConfig returned
    scanPc,       \* Scan: "call", "loop", "wrap", "returned"
    scanMode,     \* "full" (ScanAllSpells) or "tome" (ScanSpellTomes)
    scanConfig,   \* the ScanConfig of the call
    dataHandler,  \* whether TESDataHandler::GetSingleton() is non-null
    allSpells,    \* the catalog's SpellItem array
    allBooks,     \* the catalog's TESObjectBOOK array
    scanPos,      \* index of the next array entry the loop visits
    spellArray,   \* the records collected so far
    seenSpellIds, \* tome scan: the taught-spell ids already met
    counters,     \* scannedCount, skippedCount, filteredCount, tomeCount, skippedDuplicates
    scanReturn,   \* what the call returned
    lkPc,         \* Detail lookup driver: "call", "returned"
    lkFormIdStr,  \* the identifier string handed to GetSpellInfoByFormId
    lkHook,       \* what the effectiveness subsystem answers for the spell
    lkFormId,     \* the FormID the identifier was parsed to
    lkReturn,     \* what GetSpellInfoByFormId returned
    sklPc,        \* Skill-tier driver: "call", "returned"
    sklMinimumSkill,  \* the value handed to GetSkillLevelName
    sklResult,    \* the tier name it returned
    clock,        \* Concurrent scans: the host's clock, in seconds
    tmPerThread,  \* whether the C library keeps std::gmtime's tm per thread
    thPc,         \* per thread: "call", "loop", "now", "wrap", "returned"
    thMode,       \* per thread: "full" or "tome"
    thConfig,     \* per thread: the ScanConfig of its call
    thPos,        \* per thread: index of the next array entry its loop visits
    thSpellArray, \* per thread: the records its call collected so far
    thSeen,       \* the seenSpellIds sets, one per storage location
    thTime,       \* per thread: the time_t its call read from the clock
    thTm,         \* the tm buffers std::gmtime fills, one per storage location
    thReturn      \* per thread: what its call returned

sanVars == <<sanPc, sanInput, sanResult, sanSecond>>
clsVars == <<clsPc, clsEditorId, clsVariant, clsResult, clsVariantResult>>
cfgVars == <<cfgPc, cfgDoc, cfgResult, cfgFieldResult>>
scanVars == <<scanPc, scanMode, scanConfig, dataHandler, allSpells, allBooks,
              scanPos, spellArray, seenSpellIds, counters, scanReturn>>
lkVars == <<lkPc, lkFormIdStr, lkHook, lkFormId, lkReturn>>
sklVars == <<sklPc, sklMinimumSkill, sklResult>>
thVars == <<clock, tmPerThread, thPc, thMode, thConfig, thPos, thSpellArray, thSeen, thTime, thTm,
            thReturn>>
vars == <<sanVars, clsVars, cfgVars, scanVars, lkVars, sklVars, thVars>>

(***************************************************************************)
(* Bytes and string literals                                               *)
(***************************************************************************)
Byte == 0..255

\* Printable characters used by the literals of the model, with their codes.
AsciiChars ==
    <<" ", "0", "1", "2", "3", "4", "5", "6", "7", "8", "9",
      "A", "B", "C", "D", "E", "F", "G", "H", "I", "J", "K", "L", "M",
      "N", "O", "P", "Q", "R", "S", "T", "U", "V", "W", "X", "Y", "Z",
      "a", "b", "c", "d", "e", "f", "g", "h", "i", "j", "k", "l", "m",
      "n", "o", "p", "q", "r", "s", "t", "u", "v", "w", "x", "y", "z",
      "'", "-", ".", "(", ")", "?", "_", "#", ":">>
AsciiCodes ==
    <<32, 48, 49, 50, 51, 52, 53, 54, 55, 56, 57,
      65, 66, 67, 68, 69, 70, 71, 72, 73, 74, 75, 76, 77,
      78, 79, 80, 81, 82, 83, 84, 85, 86, 87, 88, 89, 90,
      97, 98, 99, 100, 101, 102, 103, 104, 105, 106, 107, 108, 109,
      110, 111, 112, 113, 114, 115, 116, 117, 118, 119, 120, 121, 122,
      39, 45, 46, 40, 41, 63, 95, 35, 58>>

Ord(ch) == AsciiCodes[CHOOSE i \in DOMAIN AsciiChars : AsciiChars[i] = ch]

\* The byte string of a literal written as a tuple of one-character strings.
Str(chars) == [i \in DOMAIN chars |-> Ord(chars[i])]

DoubleQuote == <<34>>

RECURSIVE Concat(_)
\* The concatenation of a sequence of byte strings.
Concat(parts) ==
    IF parts = <<>> THEN <<>> ELSE Head(parts) \o Concat(Tail(parts))

(***************************************************************************)
(* SanitizeToUTF8                                                          *)
(***************************************************************************)
\* Cp1252Replacement with the ellipsis replaced by its UTF-8 encoding
\* (E2 80 A6) instead of three periods.
Cp1252ReplacementUtf8Ellipsis(c) ==
    CASE c = 145 -> Str(<<"'">>)
      [] c = 146 -> Str(<<"'">>)
      [] c = 147 -> DoubleQuote
      [] c = 148 -> DoubleQuote
      [] c = 150 -> Str(<<"-">>)
      [] c = 151 -> Str(<<"-">>)
      [] c = 133 -> <<226, 128, 166>>
      [] c = 153 -> Str(<<"(", "T", "M", ")">>)
      [] OTHER   -> Str(<<"?">>)

\* The switch on a byte of [0x80, 0x9F]: its ASCII replacement.
Cp1252Replacement(c) ==
    CASE c = 145 -> Str(<<"'">>)                    \* 0x91 left single quote
      [] c = 146 -> Str(<<"'">>)                    \* 0x92 right single quote
      [] c = 147 -> DoubleQuote                     \* 0x93 left double quote
      [] c = 148 -> DoubleQuote                     \* 0x94 right double quote
      [] c = 150 -> Str(<<"-">>)                    \* 0x96 en dash
      [] c = 151 -> Str(<<"-">>)                    \* 0x97 em dash
      [] c = 133 -> Str(<<".", ".", ".">>)          \* 0x85 ellipsis
      [] c = 153 -> Str(<<"(", "T", "M", ")">>)     \* 0x99 trademark
      [] OTHER   -> Str(<<"?">>)

\* SanitizeByte with the lower edge of the replaced range off by one
\* (c > 0x80), so that 0x80 is copied.
SanitizeByteOpenRange(c) ==
    IF c < 128 THEN <<c>>
    ELSE IF c > 128 /\ c <= 159 THEN Cp1252Replacement(c)
    ELSE <<c>>

\* The loop body: what one input byte appends to the result.
SanitizeByte(c) ==
    IF c < 128 THEN <<c>>
    ELSE IF c >= 128 /\ c <= 159 THEN Cp1252Replacement(c)
    ELSE <<c>>

RECURSIVE SanitizeFrom(_, _, _)
SanitizeFrom(input, i, result) ==
    IF i > Len(input) THEN result
    ELSE SanitizeFrom(input, i + 1, result \o SanitizeByte(input[i]))

SanitizeToUTF8(input) == SanitizeFrom(input, 1, <<>>)

(***************************************************************************)
(* Well-formed UTF-8 (the Unicode standard's table of byte sequences),     *)
(* which is what the JSON serializer accepts in a string.                  *)
(***************************************************************************)
IsCont(s, i) == i <= Len(s) /\ s[i] >= 128 /\ s[i] <= 191
InRange(s, i, lo, hi) == i <= Len(s) /\ s[i] >= lo /\ s[i] <= hi

\* The length of the well-formed sequence starting at s[i], or 0 if none does.
Utf8SeqLen(s, i) ==
    LET b == s[i] IN
    CASE b <= 127 -> 1
      [] b >= 194 /\ b <= 223 -> IF IsCont(s, i + 1) THEN 2 ELSE 0
      [] b = 224 ->
            IF InRange(s, i + 1, 160, 191) /\ IsCont(s, i + 2) THEN 3 ELSE 0
      [] (b >= 225 /\ b <= 236) \/ b = 238 \/ b = 239 ->
            IF IsCont(s, i + 1) /\ IsCont(s, i + 2) THEN 3 ELSE 0
      [] b = 237 ->
            IF InRange(s, i + 1, 128, 159) /\ IsCont(s, i + 2) THEN 3 ELSE 0
      [] b = 240 ->
            IF InRange(s, i + 1, 144, 191) /\ IsCont(s, i + 2) /\ IsCont(s, i + 3)
            THEN 4 ELSE 0
      [] b >= 241 /\ b <= 243 ->
            IF IsCont(s, i + 1) /\ IsCont(s, i + 2) /\ IsCont(s, i + 3)
            THEN 4 ELSE 0
      [] b = 244 ->
            IF InRange(s, i + 1, 128, 143) /\ IsCont(s, i + 2) /\ IsCont(s, i + 3)
            THEN 4 ELSE 0
      [] OTHER -> 0

RECURSIVE ValidUtf8From(_, _)
ValidUtf8From(s, i) ==
    IF i > Len(s) THEN TRUE
    ELSE LET n == Utf8SeqLen(s, i) IN
         IF n = 0 THEN FALSE ELSE ValidUtf8From(s, i + n)

IsValidUtf8(s) == ValidUtf8From(s, 1)

(***************************************************************************)
(* isNonPlayerSpell (the classifier lambda of ScanSpellsToJson)            *)
(***************************************************************************)
\* std::string::npos, as the result of a find that matches nowhere.
Npos == -1

\* ::tolower in the "C" locale.
ToLowerByte(c) == IF c >= 65 /\ c <= 90 THEN c + 32 ELSE c

\* std::isdigit
IsDigit(c) == c >= 48 /\ c <= 57

\* std::transform(..., ::tolower) forgotten: the string is compared as given.
ToLowerIdentity(s) == s

\* std::transform(lower.begin(), lower.end(), lower.begin(), ::tolower)
ToLower(s) == [i \in DOMAIN s |-> ToLowerByte(s[i])]

\* s.substr(pos, n) for pos <= s.size(), with 0-based pos.
Substr(s, pos, n) ==
    SubSeq(s, pos + 1, IF pos + n <= Len(s) THEN pos + n ELSE Len(s))

\* s.find(pat): the 0-based position of the first occurrence, or npos.
Find(s, pat) ==
    LET hits == {p \in 0..(Len(s) - Len(pat)) : SubSeq(s, p + 1, p + Len(pat)) = pat}
    IN  IF hits = {} THEN Npos
        ELSE CHOOSE p \in hits : \A q \in hits : p <= q

isNonPlayerSpell(editorId) ==
    LET lower == ToLower(editorId) IN
    IF Find(lower, Str(<<"t", "r", "a", "p">>)) # Npos THEN TRUE
    ELSE IF Substr(lower, 0, 2) = Str(<<"c", "r">>) THEN TRUE
    ELSE IF Find(lower, Str(<<"a", "l", "t", "a", "r">>)) # Npos THEN TRUE
    ELSE IF Find(lower, Str(<<"s", "h", "r", "i", "n", "e">>)) # Npos THEN TRUE
    ELSE IF /\ Find(lower, Str(<<"b", "l", "e", "s", "s", "i", "n", "g">>)) # Npos
            /\ Find(lower, Str(<<"s", "p", "e", "l", "l">>)) # Npos THEN TRUE
    ELSE IF Substr(lower, 0, 3) = Str(<<"d", "u", "n">>) THEN TRUE
    ELSE IF Substr(lower, 0, 4) = Str(<<"p", "e", "r", "k">>) THEN TRUE
    ELSE IF Find(lower, Str(<<"h", "a", "z", "a", "r", "d">>)) # Npos THEN TRUE
    ELSE IF Substr(lower, 0, 5) = Str(<<"p", "o", "w", "e", "r">>) THEN TRUE
    ELSE IF Substr(lower, 0, 4) = Str(<<"t", "e", "s", "t">>) THEN TRUE
    ELSE IF /\ Len(lower) >= 4
            /\ Substr(lower, 0, 2) = Str(<<"m", "g">>)
            /\ IsDigit(lower[3])
            /\ IsDigit(lower[4]) THEN TRUE
    ELSE IF Find(lower, Str(<<"m", "g", "r">>)) = 0 THEN TRUE
    ELSE IF Find(lower, Str(<<"v", "o", "i", "c", "e">>)) # Npos THEN TRUE
    ELSE IF /\ Find(lower, Str(<<"t", "e", "l", "e", "p", "o", "r", "t">>)) # Npos
            /\ Find(lower, Str(<<"p", "e", "t">>)) # Npos THEN TRUE
    ELSE IF Find(lower, Str(<<"l", "e", "f", "t", "h", "a", "n", "d">>)) # Npos THEN TRUE
    ELSE IF Find(lower, Str(<<"r", "i", "g", "h", "t", "h", "a", "n", "d">>)) # Npos THEN TRUE
    ELSE IF Find(lower, Str(<<"c", "o", "p", "y">>)) # Npos THEN TRUE
    ELSE FALSE

(***************************************************************************)
(* FieldConfig, ScanConfig and ParseScanConfig                             *)
(*                                                                         *)
(* A configuration text is empty, unparseable, or parses to a JSON value:  *)
(*   [text |-> "empty" | "invalid" | "json",                               *)
(*    root |-> "object" | "array",                                         *)
(*    fields |-> [kind |-> "absent" | "scalar" | "object",                 *)
(*                members |-> a function from member names to the kind of  *)
(*                            JSON value each holds],                      *)
(*    tree |-> [kind |-> "absent" | "string" | "number", value |-> bytes], *)
(*    comment |-> whether the root holds a key the parser does not know]   *)
(***************************************************************************)
\* The flags in the order ParseScanConfig reads them.
FieldKeyOrder ==
    <<"editorId", "magickaCost", "minimumSkill", "castingType", "delivery",
      "chargeTime", "plugin", "effects", "effectNames", "keywords">>

FieldKeys == {FieldKeyOrder[i] : i \in DOMAIN FieldKeyOrder}

\* FieldConfig's member initializers with keywords defaulting to true.
DefaultFieldConfigKeywordsOn ==
    [k \in FieldKeys |-> k \in {"editorId", "magickaCost", "keywords"}]

\* struct FieldConfig: the member initializers.
DefaultFieldConfig ==
    [k \in FieldKeys |-> k \in {"editorId", "magickaCost"}]

\* struct ScanConfig, default-constructed.
DefaultScanConfig ==
    [fields |-> DefaultFieldConfig, treeRulesPrompt |-> <<>>]

\* json::get<bool>() throws type_error unless the value is a boolean.
IsJsonBool(v) == v \in {"true", "false"}

RECURSIVE ParseFieldsFrom(_, _, _)
\* The chain of  if (f.contains(k)) config.fields.k = f[k].get<bool>();  from
\* the i-th key on: the configuration reached, and whether a get threw.
ParseFieldsFrom(members, i, fields) ==
    IF i > Len(FieldKeyOrder) THEN [fields |-> fields, threw |-> FALSE]
    ELSE LET k == FieldKeyOrder[i] IN
         IF k \notin DOMAIN members THEN ParseFieldsFrom(members, i + 1, fields)
         ELSE IF ~IsJsonBool(members[k]) THEN [fields |-> fields, threw |-> TRUE]
         ELSE ParseFieldsFrom(members, i + 1,
                              [fields EXCEPT ![k] = (members[k] = "true")])

ParseScanConfig(jsonConfig) ==
    IF jsonConfig.text = "empty" THEN DefaultScanConfig
    ELSE IF jsonConfig.text = "invalid" THEN DefaultScanConfig   \* json::parse threw
    ELSE IF jsonConfig.root # "object" THEN DefaultScanConfig    \* contains() is false
    ELSE
        LET parsed ==
                IF jsonConfig.fields.kind = "object"
                THEN ParseFieldsFrom(jsonConfig.fields.members, 1, DefaultFieldConfig)
                ELSE [fields |-> DefaultFieldConfig, threw |-> FALSE]
        IN  IF parsed.threw
            THEN [fields |-> parsed.fields, treeRulesPrompt |-> <<>>]
            ELSE IF jsonConfig.tree.kind = "string"
            THEN [fields |-> parsed.fields, treeRulesPrompt |-> jsonConfig.tree.value]
            ELSE \* absent, or get<std::string>() threw: the prompt stays empty
                 [fields |-> parsed.fields, treeRulesPrompt |-> <<>>]

\* The legacy parser: the same chain of reads, on the root of the document.
\*   jsonConfig: [text, root, members |-> the root object's members]
ParseFieldConfig(jsonConfig) ==
    IF jsonConfig.text = "empty" THEN DefaultFieldConfig
    ELSE IF jsonConfig.text = "invalid" THEN DefaultFieldConfig   \* json::parse threw
    ELSE IF jsonConfig.root # "object" THEN DefaultFieldConfig    \* contains() is false
    ELSE ParseFieldsFrom(jsonConfig.members, 1, DefaultFieldConfig).fields

(***************************************************************************)
(* Catalog entities                                                        *)
(*                                                                         *)
(* RE::FormID is an unsigned 32-bit value; it is held as <<hi, lo>>, its   *)
(* two 16-bit halves, so that every value fits the model checker's         *)
(* integers.                                                               *)
(*   effect: [valid |-> the effect and its baseEffect are non-null,        *)
(*            school, minimumSkill, name, magnitude, duration, area,       *)
(*            description]                                                 *)
(*   spell:  [isNull, formId, spellType, editorId |-> [isNull, text],      *)
(*            name, effects, cost, castingType, delivery, chargeTime,      *)
(*            keywords |-> [isNull, list |-> seq of [isNull, editorId]]]   *)
(*   book:   [isNull, formId, name, teachesSpell, spell |-> a spell]       *)
(***************************************************************************)
HexDigit(d) == IF d < 10 THEN 48 + d ELSE 55 + d

\* The four upper-case hex digits of a 16-bit value.
Hex4(n) ==
    <<HexDigit(n \div 4096), HexDigit((n \div 256) % 16),
      HexDigit((n \div 16) % 16), HexDigit(n % 16)>>

\* std::format("0x{:08X}", formId)
FormatFormId(formId) == Str(<<"0", "x">>) \o Hex4(formId[1]) \o Hex4(formId[2])

GetSchoolName(school) ==
    CASE school = "kAlteration" -> "Alteration"
      [] school = "kConjuration" -> "Conjuration"
      [] school = "kDestruction" -> "Destruction"
      [] school = "kIllusion" -> "Illusion"
      [] school = "kRestoration" -> "Restoration"
      [] OTHER -> "Unknown"

GetCastingTypeName(type) ==
    CASE type = "kConstantEffect" -> "Constant Effect"
      [] type = "kFireAndForget" -> "Fire and Forget"
      [] type = "kConcentration" -> "Concentration"
      [] type = "kScroll" -> "Scroll"
      [] OTHER -> "Unknown"

GetDeliveryName(delivery) ==
    CASE delivery = "kSelf" -> "Self"
      [] delivery = "kTouch" -> "Touch"
      [] delivery = "kAimed" -> "Aimed"
      [] delivery = "kTargetActor" -> "Target Actor"
      [] delivery = "kTargetLocation" -> "Target Location"
      [] OTHER -> "Unknown"

\* GetSkillLevelName with each threshold belonging to the lower tier.
GetSkillLevelNameInclusive(minimumSkill) ==
    IF minimumSkill <= 25 THEN "Novice"
    ELSE IF minimumSkill <= 50 THEN "Apprentice"
    ELSE IF minimumSkill <= 75 THEN "Adept"
    ELSE IF minimumSkill <= 100 THEN "Expert"
    ELSE "Master"

GetSkillLevelName(minimumSkill) ==
    IF minimumSkill < 25 THEN "Novice"
    ELSE IF minimumSkill < 50 THEN "Apprentice"
    ELSE IF minimumSkill < 75 THEN "Adept"
    ELSE IF minimumSkill < 100 THEN "Expert"
    ELSE "Master"

\* The host's load order: LookupLoadedModByIndex / LookupLoadedLightModByIndex,
\* an empty file name standing for a null file.
pluginSkyrim == Str(<<"S", "k", "y", "r", "i", "m", ".", "e", "s", "m">>)
pluginLight == Str(<<"L", "i", "g", "h", "t", ".", "e", "s", "l">>)
textUnknown == Str(<<"U", "n", "k", "n", "o", "w", "n">>)
LookupLoadedModByIndex(modIndex) == IF modIndex = 0 THEN pluginSkyrim ELSE <<>>
LookupLoadedLightModByIndex(lightIndex) == IF lightIndex = 1 THEN pluginLight ELSE <<>>

GetPluginName(formId) ==
    LET modIndex == formId[1] \div 256
        lightIndex == (formId[1] % 256) * 16 + formId[2] \div 4096
        file == IF modIndex = 254 THEN LookupLoadedLightModByIndex(lightIndex)
                ELSE LookupLoadedModByIndex(modIndex)
    IN  IF file # <<>> THEN file ELSE textUnknown

\* std::isxdigit
IsXDigit(c) ==
    \/ c >= 48 /\ c <= 57
    \/ c >= 65 /\ c <= 70
    \/ c >= 97 /\ c <= 102

\* name.substr(0, 2) == "0x" || name.substr(0, 2) == "0X"
HasHexPrefix(name) ==
    \/ Substr(name, 0, 2) = Str(<<"0", "x">>)
    \/ Substr(name, 0, 2) = Str(<<"0", "X">>)

\* The allHex loop: every character is a hex digit or a space.
AllHex(name) == \A i \in DOMAIN name : IsXDigit(name[i]) \/ name[i] = 32

\* School and minimum skill, read from the first effect only.
FirstEffectSchool(spell) ==
    IF Len(spell.effects) > 0 /\ spell.effects[1].valid
    THEN spell.effects[1].school ELSE "kNone"
FirstEffectMinimumSkill(spell) ==
    IF Len(spell.effects) > 0 /\ spell.effects[1].valid
    THEN spell.effects[1].minimumSkill ELSE 0

\* The hasValidEffect loop.
HasValidEffect(spell) ==
    \E i \in DOMAIN spell.effects :
        /\ spell.effects[i].valid
        /\ spell.effects[i].name # <<>>
        /\ Len(spell.effects[i].name) > 2
        /\ ~HasHexPrefix(spell.effects[i].name)

\* The cost threshold of the full scan (magickaCost > 1000.0f).
MaxPlayerCost == 1000

\* FullScanVerdict with the cost test written >= instead of >.
FullScanVerdictCostInclusive(spell) ==
    IF spell.isNull THEN "null"
    ELSE IF spell.spellType # "kSpell" THEN "notSpell"
    ELSE IF spell.name = <<>> \/ spell.editorId.isNull \/ Len(spell.editorId.text) = 0
        THEN "unnamed"
    ELSE IF Len(spell.name) >= 2 /\ HasHexPrefix(spell.name) THEN "formIdName"
    ELSE IF AllHex(spell.name) /\ Len(spell.name) >= 6 THEN "hexName"
    ELSE IF isNonPlayerSpell(spell.editorId.text) THEN "nonPlayer"
    ELSE IF FirstEffectSchool(spell) = "kNone" THEN "noSchool"
    ELSE IF spell.cost >= MaxPlayerCost THEN "highCost"
    ELSE IF ~HasValidEffect(spell) THEN "noValidEffect"
    ELSE "keep"

\* What the body of ScanSpellsToJson's loop does with one array entry: the
\* first test, in the code's order, that ends the iteration, or "keep".
FullScanVerdict(spell) ==
    IF spell.isNull THEN "null"
    ELSE IF spell.spellType # "kSpell" THEN "notSpell"
    ELSE IF spell.name = <<>> \/ spell.editorId.isNull \/ Len(spell.editorId.text) = 0
        THEN "unnamed"
    ELSE IF Len(spell.name) >= 2 /\ HasHexPrefix(spell.name) THEN "formIdName"
    ELSE IF AllHex(spell.name) /\ Len(spell.name) >= 6 THEN "hexName"
    ELSE IF isNonPlayerSpell(spell.editorId.text) THEN "nonPlayer"
    ELSE IF FirstEffectSchool(spell) = "kNone" THEN "noSchool"
    ELSE IF spell.cost > MaxPlayerCost THEN "highCost"
    ELSE IF ~HasValidEffect(spell) THEN "noValidEffect"
    ELSE "keep"

\* TomeScanVerdict without the test of the seen set.
TomeScanVerdictNoDedup(book, seen) ==
    IF book.isNull THEN "noSpell"
    ELSE IF ~book.teachesSpell THEN "noSpell"
    ELSE IF book.spell.isNull THEN "noSpell"
    ELSE IF book.spell.name = <<>> THEN "unnamed"
    ELSE IF FirstEffectSchool(book.spell) = "kNone" THEN "noSchool"
    ELSE "keep"

\* TomeScanVerdict with the full scan's classifier test applied to the taught
\* spell's editorId.
TomeScanVerdictClassified(book, seen) ==
    IF book.isNull THEN "noSpell"
    ELSE IF ~book.teachesSpell THEN "noSpell"
    ELSE IF book.spell.isNull THEN "noSpell"
    ELSE IF book.spell.formId \in seen THEN "duplicate"
    ELSE IF book.spell.name = <<>> THEN "unnamed"
    ELSE IF ~book.spell.editorId.isNull /\ isNonPlayerSpell(book.spell.editorId.text)
        THEN "noSchool"
    ELSE IF FirstEffectSchool(book.spell) = "kNone" THEN "noSchool"
    ELSE "keep"

\* What the body of ScanSpellTomes' loop does with one array entry.
TomeScanVerdict(book, seen) ==
    IF book.isNull THEN "noSpell"
    ELSE IF ~book.teachesSpell THEN "noSpell"
    ELSE IF book.spell.isNull THEN "noSpell"
    ELSE IF book.spell.formId \in seen THEN "duplicate"
    ELSE IF book.spell.name = <<>> THEN "unnamed"
    ELSE IF FirstEffectSchool(book.spell) = "kNone" THEN "noSchool"
    ELSE "keep"

(***************************************************************************)
(* Record projection.  A JSON object is a function from its keys.          *)
(***************************************************************************)
ValidEffects(spell) == SelectSeq(spell.effects, LAMBDA e : e.valid)

\* One entry of the "effects" array.
EffectJson(effect) ==
    [k \in {"name", "magnitude", "duration", "area"}
            \cup (IF Len(effect.description) > 0 THEN {"description"} ELSE {}) |->
        CASE k = "name" -> SanitizeToUTF8(effect.name)
          [] k = "magnitude" -> effect.magnitude
          [] k = "duration" -> effect.duration
          [] k = "area" -> effect.area
          [] k = "description" -> SanitizeToUTF8(effect.description)]

EffectsArray(spell) ==
    LET es == ValidEffects(spell) IN [i \in DOMAIN es |-> EffectJson(es[i])]

EffectNamesArray(spell) ==
    LET es == ValidEffects(spell) IN [i \in DOMAIN es |-> SanitizeToUTF8(es[i].name)]

\* The keywords loop: the non-empty editorIds of the non-null keywords.
KeywordsArray(spell) ==
    LET kept == SelectSeq(spell.keywords.list,
                    LAMBDA kw : ~kw.isNull /\ ~kw.editorId.isNull
                                /\ Len(kw.editorId.text) > 0)
    IN  [i \in DOMAIN kept |-> kept[i].editorId.text]

\* The optional-field ladder with effects and effectNames tested each on its
\* own flag.
OptionalKeysBothLists(spell, fields) ==
    (IF fields.magickaCost THEN {"magickaCost"} ELSE {})
    \cup (IF fields.minimumSkill THEN {"minimumSkill"} ELSE {})
    \cup (IF fields.castingType THEN {"castingType"} ELSE {})
    \cup (IF fields.delivery THEN {"delivery"} ELSE {})
    \cup (IF fields.chargeTime THEN {"chargeTime"} ELSE {})
    \cup (IF fields.plugin THEN {"plugin"} ELSE {})
    \cup (IF fields.effects THEN {"effects"} ELSE {})
    \cup (IF fields.effectNames THEN {"effectNames"} ELSE {})
    \cup (IF fields.keywords /\ ~spell.keywords.isNull THEN {"keywords"} ELSE {})

\* The keys the optional-field ladder adds, editorId apart.
OptionalKeys(spell, fields) ==
    (IF fields.magickaCost THEN {"magickaCost"} ELSE {})
    \cup (IF fields.minimumSkill THEN {"minimumSkill"} ELSE {})
    \cup (IF fields.castingType THEN {"castingType"} ELSE {})
    \cup (IF fields.delivery THEN {"delivery"} ELSE {})
    \cup (IF fields.chargeTime THEN {"chargeTime"} ELSE {})
    \cup (IF fields.plugin THEN {"plugin"} ELSE {})
    \cup (IF fields.effects THEN {"effects"}
          ELSE IF fields.effectNames THEN {"effectNames"} ELSE {})
    \cup (IF fields.keywords /\ ~spell.keywords.isNull THEN {"keywords"} ELSE {})

\* The value stored under a key of a spell record.
SpellJsonValue(k, spell, book) ==
    CASE k = "formId" -> FormatFormId(spell.formId)
      [] k = "name" -> SanitizeToUTF8(spell.name)
      [] k = "school" -> GetSchoolName(FirstEffectSchool(spell))
      [] k = "skillLevel" -> GetSkillLevelName(FirstEffectMinimumSkill(spell))
      [] k = "tomeFormId" -> FormatFormId(book.formId)
      [] k = "tomeName" -> SanitizeToUTF8(book.name)
      [] k = "editorId" -> spell.editorId.text
      [] k = "magickaCost" -> spell.cost
      [] k = "minimumSkill" -> FirstEffectMinimumSkill(spell)
      [] k = "castingType" -> GetCastingTypeName(spell.castingType)
      [] k = "delivery" -> GetDeliveryName(spell.delivery)
      [] k = "chargeTime" -> spell.chargeTime
      [] k = "plugin" -> GetPluginName(spell.formId)
      [] k = "effects" -> EffectsArray(spell)
      [] k = "effectNames" -> EffectNamesArray(spell)
      [] k = "keywords" -> KeywordsArray(spell)

\* The essential fields of a full-scan record.
FullEssentialKeys == {"formId", "name", "school", "skillLevel"}

\* The record ScanSpellsToJson builds for a kept spell.
FullSpellJson(spell, fields) ==
    [k \in FullEssentialKeys
            \cup (IF fields.editorId THEN {"editorId"} ELSE {})
            \cup OptionalKeys(spell, fields) |->
        SpellJsonValue(k, spell, spell)]

\* TomeEssentialKeys without the tome's name.
TomeEssentialKeysNoTomeName ==
    {"formId", "name", "school", "skillLevel", "tomeFormId"}

\* The always-present fields of a tome-scan record.
TomeEssentialKeys ==
    {"formId", "name", "school", "skillLevel", "tomeFormId", "tomeName"}

\* The record ScanSpellTomes builds for a kept taught spell.
TomeSpellJson(book, fields) ==
    [k \in TomeEssentialKeys
            \cup (IF fields.editorId /\ ~book.spell.editorId.isNull
                  THEN {"editorId"} ELSE {})
            \cup OptionalKeys(book.spell, fields) |->
        SpellJsonValue(k, book.spell, book)]

(***************************************************************************)
(* Output assembly                                                         *)
(***************************************************************************)
\* GetSystemInstructions(): the fixed template, abridged to its first heading.
GetSystemInstructions ==
    <<10>> \o Str(<<"#", "#", " ", "O", "U", "T", "P", "U", "T">>) \o <<10>>

treeRulesHeading ==
    Str(<<"#", "#", " ", "T", "R", "E", "E", " ", "C", "R", "E", "A", "T", "I", "O", "N",
          " ", "R", "U", "L", "E", "S">>) \o <<10, 10>>

CombinedPrompt(config) ==
    (IF config.treeRulesPrompt # <<>>
     THEN treeRulesHeading \o config.treeRulesPrompt \o <<10, 10>>
     ELSE <<>>) \o GetSystemInstructions

\* The "%Y-%m-%dT%H:%M:%SZ" rendering of the time of the call, which the model
\* holds fixed.
ScanTimestamp == Str(<<"2", "0", "2", "6", "-", "0", "1", "-", "0", "1", "T",
                       "0", "0", ":", "0", "0", ":", "0", "0", "Z">>)

FullScanDocument(records, config) ==
    [scanTimestamp |-> ScanTimestamp,
     spellCount |-> Len(records),
     spells |-> records,
     llmPrompt |-> CombinedPrompt(config)]

TomeScanDocument(records, config) ==
    [scanTimestamp |-> ScanTimestamp,
     scanMode |-> "spell_tomes",
     spellCount |-> Len(records),
     spells |-> records,
     llmPrompt |-> CombinedPrompt(config)]

\* The byte strings a spell record stores.
RecordStrings(rec) ==
    {rec[k] : k \in DOMAIN rec \cap {"formId", "name", "tomeFormId", "tomeName",
                                     "editorId", "plugin"}}
    \cup (IF "effectNames" \in DOMAIN rec
          THEN {rec.effectNames[i] : i \in DOMAIN rec.effectNames} ELSE {})
    \cup (IF "keywords" \in DOMAIN rec
          THEN {rec.keywords[i] : i \in DOMAIN rec.keywords} ELSE {})
    \cup (IF "effects" \in DOMAIN rec
          THEN UNION {{rec.effects[i][k] : k \in DOMAIN rec.effects[i] \cap {"name", "description"}}
                        : i \in DOMAIN rec.effects}
          ELSE {})

\* json::dump throws type_error 316 when a string is not well-formed UTF-8.
DumpThrows(document) ==
    \/ ~IsValidUtf8(document.llmPrompt)
    \/ \E i \in DOMAIN document.spells :
          \E str \in RecordStrings(document.spells[i]) : ~IsValidUtf8(str)

(***************************************************************************)
(* Sanitizer driver: SanitizeToUTF8 applied to an input, then to its own   *)
(* output.                                                                 *)
(***************************************************************************)
MaxInputLen == 3

\* Bytes the inputs are built from: ASCII, every byte the switch names, other
\* bytes of [0x80, 0x9F], and lead/continuation/extended bytes above 0x9F.
SanitizerBytes ==
    {65, 127, 128, 133, 145, 146, 147, 148, 150, 151, 153, 159,
     160, 195, 226, 255}

RECURSIVE SeqsUpTo(_, _)
\* All sequences over S of length at most n.
SeqsUpTo(S, n) ==
    IF n = 0 THEN {<<>>}
    ELSE LET shorter == SeqsUpTo(S, n - 1) IN
         shorter \cup {Append(s, x) : s \in {t \in shorter : Len(t) = n - 1}, x \in S}

SanitizerInputs ==
    SeqsUpTo(SanitizerBytes, MaxInputLen) \cup {<<b>> : b \in Byte}

SanIdle ==
    /\ sanPc = "idle"
    /\ sanInput = <<>>
    /\ sanResult = <<>>
    /\ sanSecond = <<>>

ClsIdle ==
    /\ clsPc = "idle"
    /\ clsEditorId = <<>>
    /\ clsVariant = <<>>
    /\ clsResult = FALSE
    /\ clsVariantResult = FALSE

CfgIdle ==
    /\ cfgPc = "idle"
    /\ cfgDoc = [text |-> "empty"]
    /\ cfgResult = DefaultScanConfig
    /\ cfgFieldResult = DefaultFieldConfig

NoCounts ==
    [scannedCount |-> 0, skippedCount |-> 0, filteredCount |-> 0,
     tomeCount |-> 0, skippedDuplicates |-> 0]

ScanIdle ==
    /\ scanPc = "idle"
    /\ scanMode = "full"
    /\ scanConfig = DefaultScanConfig
    /\ dataHandler = FALSE
    /\ allSpells = <<>>
    /\ allBooks = <<>>
    /\ scanPos = 1
    /\ spellArray = <<>>
    /\ seenSpellIds = {}
    /\ counters = NoCounts
    /\ scanReturn = [kind |-> "pending"]

\* The effectiveness subsystem is absent.
NoHook == [present |-> FALSE, early |-> FALSE, num |-> 1, den |-> 1]

LkIdle ==
    /\ lkPc = "idle"
    /\ lkFormIdStr = <<>>
    /\ lkHook = NoHook
    /\ lkFormId = <<0, 0>>
    /\ lkReturn = [kind |-> "pending"]

SklIdle ==
    /\ sklPc = "idle"
    /\ sklMinimumSkill = 0
    /\ sklResult = "Novice"

Threads == {1, 2}

ThIdle ==
    /\ clock = 0
    /\ tmPerThread = TRUE
    /\ thPc = [t \in Threads |-> "idle"]
    /\ thMode = [t \in Threads |-> "full"]
    /\ thConfig = [t \in Threads |-> DefaultScanConfig]
    /\ thPos = [t \in Threads |-> 1]
    /\ thSpellArray = [t \in Threads |-> <<>>]
    /\ thSeen = [t \in Threads |-> {}]
    /\ thTime = [t \in Threads |-> 0]
    /\ thTm = [t \in Threads |-> 0]
    /\ thReturn = [t \in Threads |-> [kind |-> "pending"]]

InitSanitize ==
    /\ sanPc = "call"
    /\ sanInput \in SanitizerInputs
    /\ sanResult = <<>>
    /\ sanSecond = <<>>
    /\ ClsIdle
    /\ CfgIdle
    /\ ScanIdle
    /\ LkIdle
    /\ SklIdle
    /\ ThIdle

SanitizeCall ==
    /\ sanPc = "call"
    /\ sanResult' = SanitizeToUTF8(sanInput)
    /\ sanPc' = "returned"
    /\ UNCHANGED <<sanInput, sanSecond, clsVars, cfgVars, scanVars, lkVars, sklVars, thVars>>

SanitizeAgain ==
    /\ sanPc = "returned"
    /\ sanSecond' = SanitizeToUTF8(sanResult)
    /\ sanPc' = "resanitized"
    /\ UNCHANGED <<sanInput, sanResult, clsVars, cfgVars, scanVars, lkVars, sklVars, thVars>>

NextSanitize == SanitizeCall \/ SanitizeAgain

SpecSanitize == InitSanitize /\ [][NextSanitize]_vars

(***************************************************************************)
(* Properties of the sanitizer                                             *)
(***************************************************************************)
SanitizeReturned == sanPc \in {"returned", "resanitized"}

\* The substitution table as the specification words it: quotes, hyphen,
\* "...", "(TM)", and "?" for every other byte of [0x80, 0x9F].
AsciiSubstitute(b) ==
    IF b \in {145, 146} THEN <<39>>
    ELSE IF b \in {147, 148} THEN <<34>>
    ELSE IF b \in {150, 151} THEN <<45>>
    ELSE IF b = 133 THEN <<46, 46, 46>>
    ELSE IF b = 153 THEN <<40, 84, 77, 41>>
    ELSE <<63>>

ByteWiseImage(input) ==
    Concat([i \in DOMAIN input |->
        IF input[i] >= 128 /\ input[i] <= 159
        THEN AsciiSubstitute(input[i]) ELSE <<input[i]>>])

\* C6: SanitizeToUTF8 copies every byte outside [0x80,0x9F] unchanged and in
\* order and replaces every byte inside it by its ASCII substitute; the output
\* holds no byte of [0x80,0x9F], and an ASCII-only input comes back unchanged.
SanitizeReplacesControlRange ==
    SanitizeReturned =>
        /\ sanResult = ByteWiseImage(sanInput)
        /\ \A i \in DOMAIN sanResult : ~(sanResult[i] >= 128 /\ sanResult[i] <= 159)
        /\ (\A i \in DOMAIN sanInput : sanInput[i] < 128) => sanResult = sanInput

\* An input mixing an ASCII byte, the ellipsis byte and 0xFF has been sanitized.
SanitizeMixedInputDone ==
    /\ sanPc = "returned"
    /\ sanInput = <<65, 133, 255>>
    /\ sanResult = <<65, 46, 46, 46, 255>>

\* C7: the byte sequence SanitizeToUTF8 returns is well-formed UTF-8, for
\* every input byte sequence.
SanitizeOutputIsValidUtf8 ==
    SanitizeReturned => IsValidUtf8(sanResult)

\* C8: SanitizeToUTF8 is idempotent: sanitizing its output changes nothing.
SanitizeIdempotent ==
    sanPc = "resanitized" => sanSecond = sanResult

\* An input the first pass changes (the trademark byte) has been sanitized twice.
SanitizeTwiceDone ==
    /\ sanPc = "resanitized"
    /\ sanInput = <<65, 153>>
    /\ sanResult = <<65, 40, 84, 77, 41>>
    /\ sanSecond = sanResult

(***************************************************************************)
(* Classifier driver: isNonPlayerSpell applied to an editorId and to the   *)
(* same editorId in another letter case.                                   *)
(***************************************************************************)
MaxTokens == 2

\* Fragments editorIds are built from: every word the rules look for, in the
\* mixed case editorIds use, digits, and words no rule looks for.
ClassifierTokens ==
    { Str(<<"T", "r", "a", "p">>), Str(<<"C", "R">>), Str(<<"c">>),
      Str(<<"A", "l", "t", "a", "r">>), Str(<<"S", "h", "r", "i", "n", "e">>),
      Str(<<"B", "l", "e", "s", "s", "i", "n", "g">>), Str(<<"S", "p", "e", "l", "l">>),
      Str(<<"D", "u", "n">>), Str(<<"P", "e", "r", "k">>),
      Str(<<"H", "a", "z", "a", "r", "d">>), Str(<<"P", "o", "w", "e", "r">>),
      Str(<<"T", "e", "s", "t">>), Str(<<"M", "G">>), Str(<<"0">>), Str(<<"0", "5">>),
      Str(<<"M", "G", "R">>), Str(<<"R">>), Str(<<"V", "o", "i", "c", "e">>),
      Str(<<"T", "e", "l", "e", "p", "o", "r", "t">>), Str(<<"P", "e", "t">>),
      Str(<<"L", "e", "f", "t", "H", "a", "n", "d">>),
      Str(<<"R", "i", "g", "h", "t", "H", "a", "n", "d">>),
      Str(<<"_", "C", "o", "p", "y">>), Str(<<"F", "l", "a", "m", "e", "s">>),
      Str(<<"W", "a", "r", "d">>), Str(<<"H", "a", "n", "d">>) }

idTrapFireRune == Str(<<"T", "r", "a", "p", "F", "i", "r", "e", "R", "u", "n", "e">>)
idFlamesSpell == Str(<<"F", "l", "a", "m", "e", "s", "S", "p", "e", "l", "l">>)
idCRWolfBite == Str(<<"C", "R", "W", "o", "l", "f", "B", "i", "t", "e">>)
idMG05Teleport == Str(<<"M", "G", "0", "5", "T", "e", "l", "e", "p", "o", "r", "t">>)
idTRAP01 == Str(<<"T", "R", "A", "P", "0", "1">>)
idTrap01Lower == Str(<<"t", "r", "a", "p", "0", "1">>)

ClassifierIds ==
    {Concat(ts) : ts \in SeqsUpTo(ClassifierTokens, MaxTokens)}
        \cup {idTrapFireRune, idFlamesSpell, idCRWolfBite, idMG05Teleport,
              idTRAP01, idTrap01Lower}

UpperCased(s) == [i \in DOMAIN s |-> IF s[i] >= 97 /\ s[i] <= 122 THEN s[i] - 32 ELSE s[i]]
LowerCased(s) == [i \in DOMAIN s |-> IF s[i] >= 65 /\ s[i] <= 90 THEN s[i] + 32 ELSE s[i]]

InitClassify ==
    /\ clsPc = "call"
    /\ clsEditorId \in ClassifierIds
    /\ clsVariant \in {UpperCased(clsEditorId), LowerCased(clsEditorId)}
    /\ clsResult = FALSE
    /\ clsVariantResult = FALSE
    /\ SanIdle
    /\ CfgIdle
    /\ ScanIdle
    /\ LkIdle
    /\ SklIdle
    /\ ThIdle

ClassifyCall ==
    /\ clsPc = "call"
    /\ clsResult' = isNonPlayerSpell(clsEditorId)
    /\ clsVariantResult' = isNonPlayerSpell(clsVariant)
    /\ clsPc' = "returned"
    /\ UNCHANGED <<clsEditorId, clsVariant, sanVars, cfgVars, scanVars, lkVars, sklVars, thVars>>

NextClassify == ClassifyCall

SpecClassify == InitClassify /\ [][NextClassify]_vars

(***************************************************************************)
(* Properties of the classifier                                            *)
(***************************************************************************)
Contains(s, pat) ==
    \E p \in 1..(Len(s) - Len(pat) + 1) : SubSeq(s, p, p + Len(pat) - 1) = pat
StartsWith(s, pat) ==
    Len(s) >= Len(pat) /\ SubSeq(s, 1, Len(pat)) = pat

\* The rule list of the specification, on the lower-cased identifier.
ListedRuleMatches(id) ==
    LET l == LowerCased(id) IN
    \/ Contains(l, Str(<<"t", "r", "a", "p">>))
    \/ StartsWith(l, Str(<<"c", "r">>))
    \/ Contains(l, Str(<<"a", "l", "t", "a", "r">>))
    \/ Contains(l, Str(<<"s", "h", "r", "i", "n", "e">>))
    \/ (Contains(l, Str(<<"b", "l", "e", "s", "s", "i", "n", "g">>))
            /\ Contains(l, Str(<<"s", "p", "e", "l", "l">>)))
    \/ StartsWith(l, Str(<<"d", "u", "n">>))
    \/ StartsWith(l, Str(<<"p", "e", "r", "k">>))
    \/ StartsWith(l, Str(<<"p", "o", "w", "e", "r">>))
    \/ StartsWith(l, Str(<<"t", "e", "s", "t">>))
    \/ Contains(l, Str(<<"h", "a", "z", "a", "r", "d">>))
    \/ \E d1 \in 48..57, d2 \in 48..57 : StartsWith(l, <<109, 103, d1, d2>>)
    \/ StartsWith(l, Str(<<"m", "g", "r">>))
    \/ Contains(l, Str(<<"v", "o", "i", "c", "e">>))
    \/ (Contains(l, Str(<<"t", "e", "l", "e", "p", "o", "r", "t">>))
            /\ Contains(l, Str(<<"p", "e", "t">>)))
    \/ Contains(l, Str(<<"l", "e", "f", "t", "h", "a", "n", "d">>))
    \/ Contains(l, Str(<<"r", "i", "g", "h", "t", "h", "a", "n", "d">>))
    \/ Contains(l, Str(<<"c", "o", "p", "y">>))

\* C9: isNonPlayerSpell returns true exactly when a listed rule matches the
\* lower-cased identifier (the "mg" + two digits rule at its start); two
\* identifiers differing only in letter case get the same result; and
\* "TrapFireRune", "CRWolfBite", "MG05Teleport" give true, "FlamesSpell" false.
ClassifierMatchesListedRules ==
    clsPc = "returned" =>
        /\ clsResult = ListedRuleMatches(clsEditorId)
        /\ clsVariantResult = clsResult
        /\ clsEditorId \in {idTrapFireRune, idCRWolfBite, idMG05Teleport} => clsResult
        /\ clsEditorId = idFlamesSpell => ~clsResult

\* "MG05Teleport" has been classified as excluded, as has its upper-case form.
ClassifierExampleDone ==
    /\ clsPc = "returned"
    /\ clsEditorId = idMG05Teleport
    /\ clsVariant # clsEditorId
    /\ clsResult
    /\ clsVariantResult

(***************************************************************************)
(* Config parser driver: ParseScanConfig applied to a configuration text.  *)
(***************************************************************************)
MaxConfigKeys == 2

\* The kinds of JSON value a member of "fields" holds.
JsonValueKinds == {"true", "false", "number"}

\* Member names of "fields": the ten flags and one the parser does not know.
MemberNames == FieldKeys \cup {"futureFlag"}

FieldsObjects ==
    UNION {[S -> JsonValueKinds] :
             S \in {T \in SUBSET MemberNames : Cardinality(T) <= MaxConfigKeys}}

promptText == Str(<<"f", "i", "r", "e", " ", "f", "i", "r", "s", "t">>)

TreeValues ==
    { [kind |-> "absent", value |-> <<>>],
      [kind |-> "string", value |-> <<>>],
      [kind |-> "string", value |-> promptText],
      [kind |-> "number", value |-> <<>>] }

ConfigDocs ==
    { [text |-> "empty"], [text |-> "invalid"], [text |-> "json", root |-> "array"] }
    \cup
    { [text |-> "json", root |-> "object", fields |-> f, tree |-> t, comment |-> c] :
        f \in {[kind |-> "absent", members |-> <<>>], [kind |-> "scalar", members |-> <<>>]}
                \cup {[kind |-> "object", members |-> m] : m \in FieldsObjects},
        t \in TreeValues,
        c \in BOOLEAN }

InitConfig ==
    /\ cfgPc = "call"
    /\ cfgDoc \in ConfigDocs
    /\ cfgResult = DefaultScanConfig
    /\ cfgFieldResult = DefaultFieldConfig
    /\ SanIdle
    /\ ClsIdle
    /\ ScanIdle
    /\ LkIdle
    /\ SklIdle
    /\ ThIdle

ParseScanConfigCall ==
    /\ cfgPc = "call"
    /\ cfgResult' = ParseScanConfig(cfgDoc)
    /\ cfgPc' = "returned"
    /\ UNCHANGED <<cfgDoc, cfgFieldResult, sanVars, clsVars, scanVars, lkVars, sklVars, thVars>>

\* The legacy text of the same settings: the flags at the root of the
\* document, as ParseFieldConfig reads them.
FieldsDocument(doc) ==
    IF ~(doc.text = "json" /\ doc.root = "object") THEN doc
    ELSE IF doc.fields.kind = "scalar" THEN [text |-> "json", root |-> "array"]
    ELSE [text |-> "json", root |-> "object", members |-> doc.fields.members]

ParseFieldConfigCall ==
    /\ cfgPc = "call"
    /\ cfgFieldResult' = ParseFieldConfig(FieldsDocument(cfgDoc))
    /\ cfgPc' = "returnedFields"
    /\ UNCHANGED <<cfgDoc, cfgResult, sanVars, clsVars, scanVars, lkVars, sklVars, thVars>>

NextConfig ==
    \/ ParseScanConfigCall
    \/ ParseFieldConfigCall

SpecConfig == InitConfig /\ [][NextConfig]_vars

(***************************************************************************)
(* Properties of the config parser                                         *)
(***************************************************************************)
IsObjectDoc(doc) == doc.text = "json" /\ doc.root = "object"

\* Every recognised key the document holds has a value of the right type.
WellFormedDoc(doc) ==
    /\ doc.text = "json"
    /\ IsObjectDoc(doc) =>
        /\ doc.fields.kind # "scalar"
        /\ \A k \in DOMAIN doc.fields.members \cap FieldKeys :
              doc.fields.members[k] \in {"true", "false"}
        /\ doc.tree.kind # "number"

\* The document without the keys the parser does not know.
WithoutUnknownKeys(doc) ==
    IF ~IsObjectDoc(doc) THEN doc
    ELSE [doc EXCEPT
            !.comment = FALSE,
            !.fields.members =
                [k \in DOMAIN doc.fields.members \cap FieldKeys |-> doc.fields.members[k]]]

\* The documented defaults, written out.
DocumentedDefaults ==
    [fields |-> [editorId |-> TRUE, magickaCost |-> TRUE, minimumSkill |-> FALSE,
                 castingType |-> FALSE, delivery |-> FALSE, chargeTime |-> FALSE,
                 plugin |-> FALSE, effects |-> FALSE, effectNames |-> FALSE,
                 keywords |-> FALSE],
     treeRulesPrompt |-> <<>>]

\* C10: ParseScanConfig on an empty document returns the defaults; on a
\* well-formed document every recognised key that is present takes the
\* document's value and every absent key keeps its default; unknown keys
\* have no effect on the result.
ParseScanConfigKeepsDefaults ==
    cfgPc = "returned" =>
        /\ cfgDoc.text = "empty" => cfgResult = DocumentedDefaults
        /\ WellFormedDoc(cfgDoc) /\ ~IsObjectDoc(cfgDoc) => cfgResult = DocumentedDefaults
        /\ WellFormedDoc(cfgDoc) /\ IsObjectDoc(cfgDoc) =>
            /\ \A k \in FieldKeys :
                  cfgResult.fields[k] =
                      IF cfgDoc.fields.kind = "object" /\ k \in DOMAIN cfgDoc.fields.members
                      THEN cfgDoc.fields.members[k] = "true"
                      ELSE DocumentedDefaults.fields[k]
            /\ cfgResult.treeRulesPrompt =
                  IF cfgDoc.tree.kind = "string" THEN cfgDoc.tree.value ELSE <<>>
        /\ cfgResult = ParseScanConfig(WithoutUnknownKeys(cfgDoc))

\* A recognised flag of the document holds a value that is not a boolean, or
\* treeRulesPrompt holds one that is not a string, or the text is not JSON.
MalformedDoc(doc) ==
    \/ doc.text = "invalid"
    \/ /\ IsObjectDoc(doc)
       /\ \/ doc.tree.kind = "number"
          \/ /\ doc.fields.kind = "object"
             /\ \E k \in DOMAIN doc.fields.members \cap FieldKeys :
                   doc.fields.members[k] \notin {"true", "false"}

\* The same for the legacy text, whose flags stand at the root.
MalformedFieldsDoc(doc) ==
    \/ doc.text = "invalid"
    \/ /\ doc.text = "json"
       /\ doc.root = "object"
       /\ \E k \in DOMAIN doc.members \cap FieldKeys :
             doc.members[k] \notin {"true", "false"}

\* C11: on a malformed configuration (text that is not JSON, or a recognised
\* key holding a value of the wrong type, wherever it stands) ParseScanConfig
\* and ParseFieldConfig return the all-defaults configuration: nothing read
\* from the document before the error is retained.
MalformedConfigYieldsDefaults ==
    /\ cfgPc = "returned" /\ MalformedDoc(cfgDoc) => cfgResult = DocumentedDefaults
    /\ cfgPc = "returnedFields" /\ MalformedFieldsDoc(FieldsDocument(cfgDoc))
          => cfgFieldResult = DocumentedDefaults.fields

\* A document setting only fields.keywords=true, beside an unknown flag, has
\* been parsed: keywords is set and every other flag is at its default.
ParseKeywordsOnlyDone ==
    /\ cfgPc = "returned"
    /\ IsObjectDoc(cfgDoc)
    /\ cfgDoc.fields.kind = "object"
    /\ DOMAIN cfgDoc.fields.members = {"keywords", "futureFlag"}
    /\ cfgDoc.fields.members["keywords"] = "true"
    /\ cfgResult.fields = [DocumentedDefaults.fields EXCEPT !["keywords"] = TRUE]

(***************************************************************************)
(* The catalogs the scans run over                                         *)
(***************************************************************************)
MaxSpells == 2
MaxBooks == 3

NullText == [isNull |-> TRUE, text |-> <<>>]
Text(t) == [isNull |-> FALSE, text |-> t]

MkEffect(school, minimumSkill, name, magnitude, description) ==
    [valid |-> TRUE, school |-> school, minimumSkill |-> minimumSkill, name |-> name,
     magnitude |-> magnitude, duration |-> 0, area |-> 0, description |-> description]

nameFireDamage == Str(<<"F", "i", "r", "e", " ", "D", "a", "m", "a", "g", "e">>)
descBurns == Str(<<"B", "u", "r", "n", "s">>) \o <<146>> \o Str(<<" ", "f", "o", "e", "s">>)

effFire == MkEffect("kDestruction", 0, nameFireDamage, 40, descBurns)
effHeal == MkEffect("kRestoration", 25, Str(<<"H", "e", "a", "l">>), 10, <<>>)
effNoSchool == MkEffect("kNone", 0, nameFireDamage, 5, <<>>)
effEnchanting == MkEffect("kEnchanting", 100, nameFireDamage, 5, <<>>)
effHexName == MkEffect("kDestruction", 50, Str(<<"0", "x", "1", "2", "A", "B">>), 5, <<>>)
effShortName == MkEffect("kDestruction", 75, Str(<<"U", "p">>), 5, <<>>)
effNull == [effFire EXCEPT !.valid = FALSE]

kwFire == [isNull |-> FALSE,
           editorId |-> Text(Str(<<"M", "a", "g", "i", "c", "F", "i", "r", "e">>))]
kwUnnamed == [isNull |-> FALSE, editorId |-> NullText]
kwEmpty == [isNull |-> FALSE, editorId |-> Text(<<>>)]
kwNull == [isNull |-> TRUE, editorId |-> NullText]

SomeKeywords == [isNull |-> FALSE, list |-> <<kwNull, kwFire, kwUnnamed, kwEmpty>>]
NoKeywords == [isNull |-> TRUE, list |-> <<>>]

MkSpell(formId, spellType, editorId, name, effects, cost, keywords) ==
    [isNull |-> FALSE, formId |-> formId, spellType |-> spellType, editorId |-> editorId,
     name |-> name, effects |-> effects, cost |-> cost,
     castingType |-> "kFireAndForget", delivery |-> "kAimed", chargeTime |-> 0,
     keywords |-> keywords]

NullEntry == [isNull |-> TRUE]

\* The FormIDs of the catalog's entries: 0x00012FCD, 0x000A26FF, 0xFE001801,
\* 0x0100BEEF, 0x02003A4C, 0x0004DEE8, as <<hi, lo>>.
CatalogFormIds ==
    << <<1, 12237>>, <<10, 9983>>, <<65024, 6145>>, <<256, 48879>>, <<512, 14924>>,
       <<4, 57064>> >>

nameFlames == Str(<<"F", "l", "a", "m", "e", "s">>)
nameHealing == Str(<<"H", "e", "a", "l", "i", "n", "g">>)
nameFormId == Str(<<"0", "x", "0", "0", "0", "A", "2", "6", "F", "F">>)
nameUpperPrefix == Str(<<"0", "X", "1", "2">>)
nameDecade == Str(<<"D", "e", "c", "a", "d", "e">>)
nameDecaf == Str(<<"D", "e", "c", "a", "f">>)
nameCurlyQuote == Str(<<"A", "z", "u", "r", "a">>) \o <<146>> \o Str(<<"s">>)
nameLatin1 == Str(<<"C", "a", "f">>) \o <<233>>
idFlames == Str(<<"F", "l", "a", "m", "e", "s">>)
idTrapRune == Str(<<"T", "r", "a", "p", "R", "u", "n", "e">>)

\* Full scan: one entity per combination of the attributes the loop tests.
SpellTypes == {"kSpell", "kPower"}
EditorIds == {NullText, Text(<<>>), Text(idFlames), Text(idTrapRune)}
SpellNames ==
    {<<>>, nameFlames, nameFormId, nameUpperPrefix, nameDecade, nameDecaf,
     nameCurlyQuote, nameLatin1}
EffectLists ==
    {<<>>, <<effNull>>, <<effFire>>, <<effNoSchool>>, <<effEnchanting>>, <<effHexName>>,
     <<effShortName>>, <<effHexName, effHeal>>, <<effNull, effFire>>}
SpellCosts == {10, 1000, 1001, 1500}

AnySpells ==
    {MkSpell(CatalogFormIds[1], t, e, n, fx, c, SomeKeywords) :
        t \in SpellTypes, e \in EditorIds, n \in SpellNames, fx \in EffectLists,
        c \in SpellCosts}

spellFlames ==
    MkSpell(CatalogFormIds[1], "kSpell", Text(idFlames), nameFlames,
            <<effFire, effNull, effHeal>>, 10, SomeKeywords)
spellHealing ==
    MkSpell(CatalogFormIds[6], "kSpell", Text(Str(<<"H", "e", "a", "l", "i", "n", "g">>)),
            nameHealing, <<effHeal>>, 12, NoKeywords)
\* A spell every filter of the full scan would reject but the school test.
spellTrapRune ==
    MkSpell(CatalogFormIds[2], "kSpell", Text(idTrapRune), nameFormId, <<effHexName>>,
            1500, SomeKeywords)
spellNoSchool ==
    MkSpell(CatalogFormIds[3], "kSpell", Text(idFlames), nameFlames, <<>>, 10, NoKeywords)
spellNoEditorId ==
    MkSpell(CatalogFormIds[4], "kSpell", NullText, nameCurlyQuote, <<effEnchanting>>, 10,
            SomeKeywords)
spellUnnamed ==
    MkSpell(CatalogFormIds[5], "kSpell", Text(idFlames), <<>>, <<effFire>>, 10, NoKeywords)
spellPower == [spellFlames EXCEPT !.spellType = "kPower"]

\* Full scan: the entries longer arrays are built from; entry i of an array
\* gets the i-th FormID.
CoreSpells ==
    {NullEntry, spellFlames, spellHealing, spellTrapRune, spellNoSchool, spellPower}

WithFormIds(entries) ==
    [i \in DOMAIN entries |->
        IF entries[i].isNull THEN entries[i]
        ELSE [entries[i] EXCEPT !.formId = CatalogFormIds[i]]]

SpellArrays ==
    {<<sp>> : sp \in AnySpells}
    \cup {WithFormIds(es) : es \in SeqsUpTo(CoreSpells, MaxSpells)}

\* Tome scan: the spells books teach, each with its own FormID.
TaughtSpells ==
    {spellFlames, spellHealing, spellTrapRune, spellNoSchool, spellNoEditorId, spellUnnamed}

nameTome == Str(<<"S", "p", "e", "l", "l", " ", "T", "o", "m", "e">>)

MkBook(name, teachesSpell, spell) ==
    [isNull |-> FALSE, formId |-> <<0, 0>>, name |-> name,
     teachesSpell |-> teachesSpell, spell |-> spell]

BookEntries ==
    {NullEntry, MkBook(nameTome, FALSE, NullEntry), MkBook(nameTome, TRUE, NullEntry),
     MkBook(<<>>, TRUE, spellFlames), MkBook(nameCurlyQuote, TRUE, spellHealing)}
    \cup {MkBook(nameTome, TRUE, sp) : sp \in TaughtSpells}

\* Entry i of the book array gets the FormID 0x0300000<i>.
WithBookFormIds(entries) ==
    [i \in DOMAIN entries |->
        IF entries[i].isNull THEN entries[i]
        ELSE [entries[i] EXCEPT !.formId = <<768, i>>]]

BookArrays == {WithBookFormIds(es) : es \in SeqsUpTo(BookEntries, MaxBooks)}

\* The arrays every FieldConfig is scanned over.
ShowcaseSpells == WithFormIds(<<spellFlames, spellHealing, spellNoEditorId>>)
ShowcaseBooks ==
    WithBookFormIds(<<MkBook(nameTome, TRUE, spellFlames), MkBook(<<>>, TRUE, spellFlames),
                      MkBook(nameTome, TRUE, spellNoEditorId),
                      MkBook(nameCurlyQuote, TRUE, spellHealing)>>)

AllFieldConfigs == [FieldKeys -> BOOLEAN]

SomeScanConfigs ==
    {DefaultScanConfig,
     [fields |-> [k \in FieldKeys |-> TRUE], treeRulesPrompt |-> promptText]}

(***************************************************************************)
(* The scans: ScanAllSpells (with ScanSpellsToJson) and ScanSpellTomes     *)
(***************************************************************************)
InitScan ==
    /\ scanPc = "call"
    /\ scanMode \in {"full", "tome"}
    /\ dataHandler \in BOOLEAN
    /\ \/ /\ dataHandler
          /\ scanConfig \in SomeScanConfigs
          /\ \/ scanMode = "full" /\ allSpells \in SpellArrays /\ allBooks = <<>>
             \/ scanMode = "tome" /\ allSpells = <<>> /\ allBooks \in BookArrays
       \/ /\ dataHandler
          /\ scanConfig \in {[fields |-> f, treeRulesPrompt |-> <<>>] : f \in AllFieldConfigs}
          /\ allSpells = ShowcaseSpells
          /\ allBooks = ShowcaseBooks
       \/ /\ ~dataHandler
          /\ scanConfig \in SomeScanConfigs
          /\ allSpells = <<>>
          /\ allBooks = <<>>
    /\ scanPos = 1
    /\ spellArray = <<>>
    /\ seenSpellIds = {}
    /\ counters = NoCounts
    /\ scanReturn = [kind |-> "pending"]
    /\ SanIdle
    /\ ClsIdle
    /\ CfgIdle
    /\ LkIdle
    /\ SklIdle
    /\ ThIdle

\* output.dump(2), or the exception it throws.
Dumped(document) ==
    IF DumpThrows(document) THEN [kind |-> "exception"]
    ELSE [kind |-> "document", document |-> document]

otherVars == <<sanVars, clsVars, cfgVars, lkVars, sklVars, thVars>>
catalogVars == <<scanMode, scanConfig, dataHandler, allSpells, allBooks>>

\* ScanAllSpells enters ScanSpellsToJson; without a data handler that returns
\* an empty array at once, which ScanAllSpells wraps.
ScanAllSpellsCall ==
    /\ scanPc = "call"
    /\ scanMode = "full"
    /\ IF dataHandler
       THEN scanPc' = "loop" /\ UNCHANGED scanReturn
       ELSE /\ scanPc' = "returned"
            /\ scanReturn' = Dumped(FullScanDocument(<<>>, scanConfig))
    /\ UNCHANGED <<catalogVars, scanPos, spellArray, seenSpellIds, counters, otherVars>>

FullAt(verdict) ==
    /\ scanPc = "loop"
    /\ scanMode = "full"
    /\ scanPos <= Len(allSpells)
    /\ FullScanVerdict(allSpells[scanPos]) = verdict

FullNext(counter) ==
    /\ scanPos' = scanPos + 1
    /\ counters' = [counters EXCEPT ![counter] = @ + 1]
    /\ UNCHANGED <<scanPc, catalogVars, spellArray, seenSpellIds, scanReturn, otherVars>>

FullSkipNull ==
    /\ FullAt("null")
    /\ scanPos' = scanPos + 1
    /\ UNCHANGED <<scanPc, catalogVars, spellArray, seenSpellIds, counters, scanReturn,
                   otherVars>>

FullSkipNotSpell == FullAt("notSpell") /\ FullNext("skippedCount")
FullSkipUnnamed == FullAt("unnamed") /\ FullNext("skippedCount")
FullFilterFormIdName == FullAt("formIdName") /\ FullNext("filteredCount")
FullFilterHexName == FullAt("hexName") /\ FullNext("filteredCount")
FullFilterNonPlayer == FullAt("nonPlayer") /\ FullNext("filteredCount")
FullSkipNoSchool == FullAt("noSchool") /\ FullNext("skippedCount")
FullFilterHighCost == FullAt("highCost") /\ FullNext("filteredCount")
FullFilterNoValidEffect == FullAt("noValidEffect") /\ FullNext("filteredCount")

FullKeep ==
    /\ FullAt("keep")
    /\ spellArray' = Append(spellArray, FullSpellJson(allSpells[scanPos], scanConfig.fields))
    /\ scanPos' = scanPos + 1
    /\ counters' = [counters EXCEPT !.scannedCount = @ + 1]
    /\ UNCHANGED <<scanPc, catalogVars, seenSpellIds, scanReturn, otherVars>>

\* The loop is over: ScanSpellsToJson returns the array and ScanAllSpells wraps
\* and serializes it.
ScanAllSpellsReturn ==
    /\ scanPc = "loop"
    /\ scanMode = "full"
    /\ scanPos > Len(allSpells)
    /\ scanPc' = "returned"
    /\ scanReturn' = Dumped(FullScanDocument(spellArray, scanConfig))
    /\ UNCHANGED <<catalogVars, scanPos, spellArray, seenSpellIds, counters, otherVars>>

\* ScanSpellTomes starts; without a data handler it returns "{}".
ScanSpellTomesCall ==
    /\ scanPc = "call"
    /\ scanMode = "tome"
    /\ IF dataHandler
       THEN scanPc' = "loop" /\ UNCHANGED scanReturn
       ELSE scanPc' = "returned" /\ scanReturn' = [kind |-> "emptyObject"]
    /\ UNCHANGED <<catalogVars, scanPos, spellArray, seenSpellIds, counters, otherVars>>

TomeAt(verdict) ==
    /\ scanPc = "loop"
    /\ scanMode = "tome"
    /\ scanPos <= Len(allBooks)
    /\ TomeScanVerdict(allBooks[scanPos], seenSpellIds) = verdict

TomeSkipBook ==
    /\ TomeAt("noSpell")
    /\ scanPos' = scanPos + 1
    /\ UNCHANGED <<scanPc, catalogVars, spellArray, seenSpellIds, counters, scanReturn,
                   otherVars>>

\* TomeSkipDuplicate without skippedDuplicates++.
TomeSkipDuplicateUncounted ==
    /\ TomeAt("duplicate")
    /\ scanPos' = scanPos + 1
    /\ UNCHANGED <<scanPc, catalogVars, spellArray, seenSpellIds, counters, scanReturn,
                   otherVars>>

TomeSkipDuplicate ==
    /\ TomeAt("duplicate")
    /\ scanPos' = scanPos + 1
    /\ counters' = [counters EXCEPT !.skippedDuplicates = @ + 1]
    /\ UNCHANGED <<scanPc, catalogVars, spellArray, seenSpellIds, scanReturn, otherVars>>

TomeSkipNew ==
    /\ seenSpellIds' = seenSpellIds \cup {allBooks[scanPos].spell.formId}
    /\ scanPos' = scanPos + 1
    /\ UNCHANGED <<scanPc, catalogVars, spellArray, counters, scanReturn, otherVars>>

\* The spell is new: it is recorded as seen, then skipped for want of a name.
TomeSkipUnnamed == TomeAt("unnamed") /\ TomeSkipNew

\* The spell is new: it is recorded as seen, then skipped for want of a school.
TomeSkipNoSchool == TomeAt("noSchool") /\ TomeSkipNew

TomeKeep ==
    /\ TomeAt("keep")
    /\ seenSpellIds' = seenSpellIds \cup {allBooks[scanPos].spell.formId}
    /\ spellArray' = Append(spellArray, TomeSpellJson(allBooks[scanPos], scanConfig.fields))
    /\ scanPos' = scanPos + 1
    /\ counters' = [counters EXCEPT !.tomeCount = @ + 1]
    /\ UNCHANGED <<scanPc, catalogVars, scanReturn, otherVars>>

ScanSpellTomesReturn ==
    /\ scanPc = "loop"
    /\ scanMode = "tome"
    /\ scanPos > Len(allBooks)
    /\ scanPc' = "returned"
    /\ scanReturn' = Dumped(TomeScanDocument(spellArray, scanConfig))
    /\ UNCHANGED <<catalogVars, scanPos, spellArray, seenSpellIds, counters, otherVars>>

NextScan ==
    \/ ScanAllSpellsCall
    \/ FullSkipNull
    \/ FullSkipNotSpell
    \/ FullSkipUnnamed
    \/ FullFilterFormIdName
    \/ FullFilterHexName
    \/ FullFilterNonPlayer
    \/ FullSkipNoSchool
    \/ FullFilterHighCost
    \/ FullFilterNoValidEffect
    \/ FullKeep
    \/ ScanAllSpellsReturn
    \/ ScanSpellTomesCall
    \/ TomeSkipBook
    \/ TomeSkipDuplicate
    \/ TomeSkipUnnamed
    \/ TomeSkipNoSchool
    \/ TomeKeep
    \/ ScanSpellTomesReturn

SpecScan == InitScan /\ [][NextScan]_vars

(***************************************************************************)
(* Properties of the scans                                                 *)
(***************************************************************************)
\* The loop of the scan is over (the record array is final).
ScanLoopDone == scanPc = "returned" /\ dataHandler

\* The teaching items of the book array: the indices of the non-null books that
\* teach a (non-null) spell.
TeachingItems ==
    {i \in DOMAIN allBooks :
        ~allBooks[i].isNull /\ allBooks[i].teachesSpell /\ ~allBooks[i].spell.isNull}

TaughtIds == {allBooks[i].spell.formId : i \in TeachingItems}

\* The first item, in array order, that teaches the spell of the given id.
FirstTeacher(id) ==
    CHOOSE i \in TeachingItems :
        /\ allBooks[i].spell.formId = id
        /\ \A j \in TeachingItems : allBooks[j].spell.formId = id => i <= j

\* The taught spell of the given id.
TaughtSpell(id) == allBooks[FirstTeacher(id)].spell

HasRecord(records, formId) ==
    \E r \in DOMAIN records : records[r].formId = FormatFormId(formId)

\* The records of the returned document, when a document was returned.
DocumentAgrees ==
    scanReturn.kind = "document" =>
        /\ scanReturn.document.spells = spellArray
        /\ scanReturn.document.spellCount = Len(spellArray)

\* C1: at every moment of a tome scan no two records carry the same formId,
\* and each record's tomeFormId is the id of the first item, in array order,
\* that teaches the record's spell; the returned document holds these records.
TomeRecordsAreUnique ==
    scanMode = "tome" =>
        /\ \A i, j \in DOMAIN spellArray :
              i # j => spellArray[i].formId # spellArray[j].formId
        /\ \A r \in DOMAIN spellArray :
              \E id \in TaughtIds :
                  /\ spellArray[r].formId = FormatFormId(id)
                  /\ spellArray[r].tomeFormId = FormatFormId(allBooks[FirstTeacher(id)].formId)
        /\ DocumentAgrees

\* A tome scan has returned a document of one record for a spell two items
\* teach, the record naming the first of the two.
TomeDuplicateSkipped ==
    /\ scanMode = "tome"
    /\ scanPc = "returned"
    /\ scanReturn.kind = "document"
    /\ Len(allBooks) = 2
    /\ TeachingItems = {1, 2}
    /\ allBooks[1].spell.formId = allBooks[2].spell.formId
    /\ Len(scanReturn.document.spells) = 1
    /\ scanReturn.document.spells[1].tomeFormId = FormatFormId(allBooks[1].formId)

\* Every taught spell has a name and a first effect with a school.
AllTaughtSpellsNamedWithSchool ==
    \A i \in TeachingItems :
        /\ allBooks[i].spell.name # <<>>
        /\ FirstEffectSchool(allBooks[i].spell) # "kNone"

\* C2: when every taught spell has a name and a resolvable school, the finished
\* tome scan holds exactly one record per distinct taught spell and its
\* skipped-duplicate count is the number of spell-teaching items minus the
\* number of distinct taught spells.
TomeCountsDistinctSpells ==
    (scanMode = "tome" /\ ScanLoopDone /\ AllTaughtSpellsNamedWithSchool) =>
        /\ Len(spellArray) = Cardinality(TaughtIds)
        /\ \A id \in TaughtIds : HasRecord(spellArray, id)
        /\ counters.tomeCount = Cardinality(TaughtIds)
        /\ counters.skippedDuplicates = Cardinality(TeachingItems) - Cardinality(TaughtIds)
        /\ DocumentAgrees

\* Three items, two of them teaching the same spell, gave 2 records and 1
\* skipped duplicate.
TomeThreeItemsTwoRecords ==
    /\ scanMode = "tome"
    /\ scanPc = "returned"
    /\ AllTaughtSpellsNamedWithSchool
    /\ Len(allBooks) = 3
    /\ Cardinality(TeachingItems) = 3
    /\ Cardinality(TaughtIds) = 2
    /\ scanReturn.kind = "document"
    /\ scanReturn.document.spellCount = 2
    /\ counters.skippedDuplicates = 1

\* C3 as stated: in a finished tome scan a taught spell has a record if and
\* only if its first effect yields a school.
TomeKeepsExactlySpellsWithSchool ==
    (scanMode = "tome" /\ ScanLoopDone) =>
        \A id \in TaughtIds :
            HasRecord(spellArray, id) <=> FirstEffectSchool(TaughtSpell(id)) # "kNone"

\* C3 as amended: in a finished tome scan a taught spell has a record if and
\* only if its name is not empty and its first effect yields a school; neither
\* the classifier, nor the identifier-like-name filter, nor the cost filter
\* is applied.
TomeKeepsNamedSpellsWithSchool ==
    (scanMode = "tome" /\ ScanLoopDone) =>
        \A id \in TaughtIds :
            HasRecord(spellArray, id) <=>
                /\ TaughtSpell(id).name # <<>>
                /\ FirstEffectSchool(TaughtSpell(id)) # "kNone"

\* A finished tome scan kept a spell whose editorId contains "trap", whose
\* name starts with "0x" and whose cost is 1500, and skipped an unnamed spell
\* that has a school.
TomeKeptTrapSkippedUnnamed ==
    /\ scanMode = "tome"
    /\ ScanLoopDone
    /\ spellTrapRune.formId \in TaughtIds
    /\ spellUnnamed.formId \in TaughtIds
    /\ Contains(LowerCased(spellTrapRune.editorId.text), Str(<<"t", "r", "a", "p">>))
    /\ spellTrapRune.cost > 1000
    /\ HasRecord(spellArray, spellTrapRune.formId)
    /\ ~HasRecord(spellArray, spellUnnamed.formId)

\* The inclusion criteria of the full scan, as the specification lists them.
LooksLikeIdentifier(name) ==
    \/ StartsWith(name, Str(<<"0", "x">>))
    \/ StartsWith(name, Str(<<"0", "X">>))

IsHexOrSpace(c) == c \in (48..57) \cup (65..70) \cup (97..102) \cup {32}

ListedForFullScan(spell) ==
    /\ spell.spellType = "kSpell"
    /\ spell.name # <<>>
    /\ ~spell.editorId.isNull /\ spell.editorId.text # <<>>
    /\ ~LooksLikeIdentifier(spell.name)
    /\ ~(Len(spell.name) >= 6 /\ \A i \in DOMAIN spell.name : IsHexOrSpace(spell.name[i]))
    /\ ~ListedRuleMatches(spell.editorId.text)
    /\ spell.effects # <<>> /\ spell.effects[1].valid /\ spell.effects[1].school # "kNone"
    /\ spell.cost <= 1000
    /\ \E i \in DOMAIN spell.effects :
          /\ spell.effects[i].valid
          /\ Len(spell.effects[i].name) > 2
          /\ ~LooksLikeIdentifier(spell.effects[i].name)

SchoolNames ==
    {"Alteration", "Conjuration", "Destruction", "Illusion", "Restoration", "Unknown"}
SkillLevelNames == {"Novice", "Apprentice", "Adept", "Expert", "Master"}

HasEssentialFields(rec) ==
    /\ {"formId", "name", "school", "skillLevel"} \subseteq DOMAIN rec
    /\ Len(rec.formId) = 10
    /\ rec.name # <<>>
    /\ rec.school \in SchoolNames
    /\ rec.skillLevel \in SkillLevelNames

\* C5: every record of a full or tome scan holds formId, name, school and
\* skillLevel, populated, whatever the FieldConfig; every record of a tome scan
\* also holds tomeFormId and tomeName.
RecordsHoldEssentialFields ==
    \A r \in DOMAIN spellArray :
        /\ HasEssentialFields(spellArray[r])
        /\ scanMode = "tome" =>
              /\ {"tomeFormId", "tomeName"} \subseteq DOMAIN spellArray[r]
              /\ Len(spellArray[r].tomeFormId) = 10

\* A tome scan with every flag of the FieldConfig false has returned a document
\* whose records hold exactly the six always-present fields.
TomeAllFlagsOffDone ==
    /\ scanMode = "tome"
    /\ scanPc = "returned"
    /\ \A k \in FieldKeys : ~scanConfig.fields[k]
    /\ scanReturn.kind = "document"
    /\ Len(scanReturn.document.spells) = 3
    /\ \A r \in DOMAIN spellArray : DOMAIN spellArray[r] = TomeEssentialKeys


(***************************************************************************)
(* Detail lookup: GetSpellInfoByFormId                                     *)
(***************************************************************************)
\* The value of one hex digit.
HexValue(c) == IF c <= 57 THEN c - 48 ELSE IF c <= 70 THEN c - 55 ELSE c - 87

RECURSIVE HexNumber(_)
HexNumber(digits) ==
    IF digits = <<>> THEN 0
    ELSE HexNumber(SubSeq(digits, 1, Len(digits) - 1)) * 16 + HexValue(digits[Len(digits)])

\* std::stoul(cleanId, nullptr, 16) on one to eight hex digits, as <<hi, lo>>.
Stoul16(cleanId) ==
    LET n == Len(cleanId) IN
    IF n <= 4 THEN <<0, HexNumber(cleanId)>>
    ELSE <<HexNumber(SubSeq(cleanId, 1, n - 4)), HexNumber(SubSeq(cleanId, n - 3, n))>>

\* StripHexPrefix that knows the lower-case prefix only.
StripHexPrefixLowerOnly(formIdStr) ==
    IF Len(formIdStr) >= 2 /\ Substr(formIdStr, 0, 2) = Str(<<"0", "x">>)
    THEN Substr(formIdStr, 2, Len(formIdStr) - 2)
    ELSE formIdStr

\* if (cleanId.length() >= 2 && (prefix is "0x" or "0X")) cleanId = cleanId.substr(2);
StripHexPrefix(formIdStr) ==
    IF Len(formIdStr) >= 2 /\ HasHexPrefix(formIdStr)
    THEN Substr(formIdStr, 2, Len(formIdStr) - 2)
    ELSE formIdStr

\* if (cleanId.length() > 8) cleanId = cleanId.substr(0, 8);
TruncateTo8(cleanId) == IF Len(cleanId) > 8 THEN Substr(cleanId, 0, 8) ELSE cleanId

\* The try block: whether a FormID was parsed, and which.  An empty cleanId
\* passes the hex loop and makes std::stoul throw invalid_argument.
ParseFormId(formIdStr) ==
    LET cleanId == TruncateTo8(StripHexPrefix(formIdStr)) IN
    IF \E i \in DOMAIN cleanId : ~IsXDigit(cleanId[i])
    THEN [ok |-> FALSE, formId |-> <<0, 0>>]
    ELSE IF cleanId = <<>>
    THEN [ok |-> FALSE, formId |-> <<0, 0>>]
    ELSE [ok |-> TRUE, formId |-> Stoul16(cleanId)]

\* The host's forms: the spells of the catalog, and one book.
bookFormId == <<768, 1>>
LookupByID(formId) ==
    IF \E sp \in TaughtSpells : sp.formId = formId
    THEN [kind |-> "spell", spell |-> CHOOSE sp \in TaughtSpells : sp.formId = formId]
    ELSE IF formId = bookFormId THEN [kind |-> "book"]
    ELSE [kind |-> "null"]

\* The level name: "Unknown" unless the first effect is there.
DetailLevel(spell) ==
    IF Len(spell.effects) > 0 /\ spell.effects[1].valid
    THEN GetSkillLevelName(spell.effects[1].minimumSkill)
    ELSE "Unknown"

\* The first non-empty effect description, sanitized.
DetailDescription(spell) ==
    LET described == SelectSeq(ValidEffects(spell), LAMBDA e : Len(e.description) > 0)
    IN  IF described = <<>> THEN <<>> ELSE SanitizeToUTF8(described[1].description)

\* static_cast<int>(effectiveness * 100), for the ratio num/den.
EffectivenessPercent(hook) == (hook.num * 100) \div hook.den

\* One entry of "scaledEffects".
ScaledEffectJson(effect, hook) ==
    [name |-> SanitizeToUTF8(effect.name),
     originalMagnitude |-> effect.magnitude,
     scaledMagnitude |-> (effect.magnitude * hook.num) \div hook.den,
     duration |-> effect.duration]

\* The scaled-effects loop without its null test.
ScaledEffectsArrayAllEffects(spell, hook) ==
    [i \in DOMAIN spell.effects |-> ScaledEffectJson(spell.effects[i], hook)]

\* The scaled-effects loop: one entry per effect the effects loop emitted.
ScaledEffectsArray(spell, hook) ==
    LET es == ValidEffects(spell) IN [i \in DOMAIN es |-> ScaledEffectJson(es[i], hook)]

\* effectivenessHook && effectivenessHook->IsEarlyLearnedSpell(formId)
IsWeakened(hook) == hook.present /\ hook.early

DetailKeys ==
    {"formId", "name", "editorId", "school", "level", "skillLevel", "minimumSkill",
     "cost", "magickaCost", "type", "castingType", "delivery", "chargeTime", "plugin",
     "effects", "effectNames", "description", "isWeakened", "effectiveness"}

\* The object GetSpellInfoByFormId builds for a spell.
SpellInfoJson(formIdStr, formId, spell, hook) ==
    [k \in DetailKeys \cup (IF IsWeakened(hook) THEN {"scaledEffects"} ELSE {}) |->
        CASE k = "formId" -> formIdStr
          [] k = "name" -> SanitizeToUTF8(spell.name)
          [] k = "editorId" -> IF spell.editorId.isNull THEN <<>> ELSE spell.editorId.text
          [] k = "school" -> GetSchoolName(FirstEffectSchool(spell))
          [] k \in {"level", "skillLevel"} -> DetailLevel(spell)
          [] k = "minimumSkill" -> FirstEffectMinimumSkill(spell)
          [] k \in {"cost", "magickaCost"} -> spell.cost
          [] k \in {"type", "castingType"} -> GetCastingTypeName(spell.castingType)
          [] k = "delivery" -> GetDeliveryName(spell.delivery)
          [] k = "chargeTime" -> spell.chargeTime
          [] k = "plugin" -> GetPluginName(formId)
          [] k = "effects" -> EffectsArray(spell)
          [] k = "effectNames" -> EffectNamesArray(spell)
          [] k = "description" -> DetailDescription(spell)
          [] k = "isWeakened" -> IsWeakened(hook)
          [] k = "effectiveness" ->
                IF IsWeakened(hook) THEN EffectivenessPercent(hook) ELSE 100
          [] k = "scaledEffects" -> ScaledEffectsArray(spell, hook)]

\* spellInfo.dump() throws type_error 316 when a string is not well-formed
\* UTF-8.
SpellInfoDumpThrows(spellInfo) ==
    \/ \E k \in {"formId", "name", "editorId", "plugin", "description"} :
          ~IsValidUtf8(spellInfo[k])
    \/ \E i \in DOMAIN spellInfo.effects :
          \E k \in DOMAIN spellInfo.effects[i] \cap {"name", "description"} :
              ~IsValidUtf8(spellInfo.effects[i][k])

GetSpellInfoByFormId(formIdStr, hook) ==
    LET parsed == ParseFormId(formIdStr)
        form == LookupByID(parsed.formId)
    IN  IF ~parsed.ok THEN [kind |-> "empty"]
        ELSE IF form.kind = "null" THEN [kind |-> "empty"]
        ELSE IF form.kind # "spell" THEN [kind |-> "empty"]
        ELSE LET spellInfo == SpellInfoJson(formIdStr, parsed.formId, form.spell, hook)
             IN  IF SpellInfoDumpThrows(spellInfo) THEN [kind |-> "exception"]
                 ELSE [kind |-> "document", document |-> spellInfo]


(***************************************************************************)
(* Detail lookup driver: GetSpellInfoByFormId applied to an identifier.    *)
(***************************************************************************)
\* FormIDs the identifiers are rendered from: spells of the catalog, the
\* book, the two extremes and one no form has.
LookupFormIds ==
    {spellFlames.formId, spellHealing.formId, spellTrapRune.formId, spellNoEditorId.formId,
     bookFormId, <<0, 0>>, <<65535, 65535>>, <<43981, 61185>>}

prefixLower == Str(<<"0", "x">>)
prefixUpper == Str(<<"0", "X">>)

Digits8(v) == Hex4(v[1]) \o Hex4(v[2])

\* The renderings of v: "0x" and eight upper-case digits, the same without
\* the prefix, with the prefix "0X", and with lower-case letters.
Renderings(v) ==
    {pre \o digits : pre \in {prefixLower, <<>>, prefixUpper},
                     digits \in {Digits8(v), ToLower(Digits8(v))}}

RECURSIVE StripZeros(_)
StripZeros(digits) ==
    IF Len(digits) > 1 /\ digits[1] = 48 THEN StripZeros(Tail(digits)) ELSE digits

\* The same without the leading zeros.
ShortRenderings(v) ==
    {pre \o digits : pre \in {prefixLower, <<>>, prefixUpper},
                     digits \in {StripZeros(Digits8(v)), ToLower(StripZeros(Digits8(v)))}}

\* What is appended to a rendering: nothing, letters that are no hex digits,
\* one more digit, a byte that is no UTF-8 text.
Suffixes == {<<>>, Str(<<"z", "z">>), Str(<<"0">>), <<233>>}

idZz1234 == Str(<<"z", "z", "1", "2", "3", "4">>)

LookupInputs ==
    UNION {{r \o suf : r \in Renderings(v) \cup ShortRenderings(v), suf \in Suffixes}
             : v \in LookupFormIds}
    \cup {<<>>, prefixLower, prefixUpper, idZz1234, prefixLower \o idZz1234,
          prefixLower \o prefixLower \o Digits8(spellFlames.formId)}

\* The answers of the effectiveness subsystem: absent, not early-learned, or
\* early-learned with effectiveness num/den.
LookupHooks ==
    {NoHook, [present |-> TRUE, early |-> FALSE, num |-> 1, den |-> 2]}
    \cup {[present |-> TRUE, early |-> TRUE, num |-> r[1], den |-> r[2]] :
            r \in {<<1, 2>>, <<1, 3>>, <<3, 4>>, <<0, 1>>, <<1, 1>>}}

InitLookup ==
    /\ lkPc = "call"
    /\ lkFormIdStr \in LookupInputs
    /\ lkHook \in LookupHooks
    /\ lkFormId = <<0, 0>>
    /\ lkReturn = [kind |-> "pending"]
    /\ SanIdle
    /\ ClsIdle
    /\ CfgIdle
    /\ ScanIdle
    /\ SklIdle
    /\ ThIdle

GetSpellInfoByFormIdCall ==
    /\ lkPc = "call"
    /\ lkFormId' = ParseFormId(lkFormIdStr).formId
    /\ lkReturn' = GetSpellInfoByFormId(lkFormIdStr, lkHook)
    /\ lkPc' = "returned"
    /\ UNCHANGED <<lkFormIdStr, lkHook, sanVars, clsVars, cfgVars, scanVars, sklVars, thVars>>

NextLookup == GetSpellInfoByFormIdCall

SpecLookup == InitLookup /\ [][NextLookup]_vars

(***************************************************************************)
(* Properties of the detail lookup                                         *)
(***************************************************************************)
\* C12: for every 32-bit FormID v, the identifier "0x" followed by the eight
\* upper-case hex digits of v is parsed by GetSpellInfoByFormId to v; so are
\* the rendering without the prefix, the one with the prefix "0X", and the
\* ones with lower-case hex letters.
FormIdRoundTrip ==
    lkPc = "returned" =>
        \A v \in LookupFormIds :
            lkFormIdStr \in Renderings(v) =>
                /\ ParseFormId(lkFormIdStr).ok
                /\ lkFormId = v

\* "0Xabcdef01" has been parsed to 0xABCDEF01.
UpperPrefixLowerDigitsParsed ==
    /\ lkPc = "returned"
    /\ lkFormIdStr = prefixUpper \o Str(<<"a", "b", "c", "d", "e", "f", "0", "1">>)
    /\ lkFormId = <<43981, 61185>>


\* The identifier after one optional prefix strip holds a character that is
\* no hex digit.
HasNonHexCharacter(formIdStr) ==
    \E i \in DOMAIN StripHexPrefix(formIdStr) : ~IsXDigit(StripHexPrefix(formIdStr)[i])

\* C13: GetSpellInfoByFormId returns the empty string, without throwing, for
\* every identifier that holds a character that is no hex digit after one
\* optional prefix strip, wherever in the string the character stands, the
\* positions after the eighth included.
NonHexIdentifierRejected ==
    lkPc = "returned" /\ HasNonHexCharacter(lkFormIdStr) => lkReturn = [kind |-> "empty"]

\* C19: the formId of the document a successful lookup returns is "0x"
\* followed by the eight upper-case zero-padded hex digits of the FormID,
\* whatever form the identifier had.
DetailFormIdIsCanonical ==
    lkPc = "returned" /\ lkReturn.kind = "document" =>
        lkReturn.document.formId = FormatFormId(lkFormId)


\* The integer part of num/den times n, for non-negative values.
TruncatedProduct(n, num, den) ==
    CHOOSE q \in 0..(n * num) : q * den <= n * num /\ n * num < (q + 1) * den

\* C14: for a spell the effectiveness subsystem reports as early-learned with
\* ratio r the document holds isWeakened = true, effectiveness = r x 100
\* truncated, and scaledEffects with one entry per emitted effect, holding
\* the effect's magnitude and that magnitude times r truncated (r = 0.5 and
\* magnitude 40 give 50 and 20); for any other spell, and when the subsystem
\* is absent, it holds isWeakened = false, effectiveness = 100 and no
\* scaledEffects.
WeakeningBlockMatchesRatio ==
    lkPc = "returned" /\ lkReturn.kind = "document" =>
        LET d == lkReturn.document IN
        IF lkHook.present /\ lkHook.early
        THEN /\ d.isWeakened = TRUE
             /\ d.effectiveness = TruncatedProduct(100, lkHook.num, lkHook.den)
             /\ "scaledEffects" \in DOMAIN d
             /\ Len(d.scaledEffects) = Len(d.effects)
             /\ \A i \in DOMAIN d.effects :
                   /\ d.scaledEffects[i].name = d.effects[i].name
                   /\ d.scaledEffects[i].originalMagnitude = d.effects[i].magnitude
                   /\ d.scaledEffects[i].scaledMagnitude =
                         TruncatedProduct(d.effects[i].magnitude, lkHook.num, lkHook.den)
             /\ lkHook.num = 1 /\ lkHook.den = 2 =>
                   /\ d.effectiveness = 50
                   /\ \A i \in DOMAIN d.effects :
                         d.effects[i].magnitude = 40 => d.scaledEffects[i].scaledMagnitude = 20
        ELSE /\ d.isWeakened = FALSE
             /\ d.effectiveness = 100
             /\ "scaledEffects" \notin DOMAIN d

\* Flames, early-learned at ratio 1/2, has been described: effectiveness 50,
\* and Fire Damage 40 scaled to 20, its null effect left out.
WeakenedFlamesDescribed ==
    /\ lkPc = "returned"
    /\ lkReturn.kind = "document"
    /\ lkFormId = spellFlames.formId
    /\ lkHook = [present |-> TRUE, early |-> TRUE, num |-> 1, den |-> 2]
    /\ lkReturn.document.effectiveness = 50
    /\ Len(lkReturn.document.scaledEffects) = 2
    /\ lkReturn.document.scaledEffects[1].scaledMagnitude = 20


(***************************************************************************)
(* Exceptions                                                              *)
(***************************************************************************)
\* C15: no exception escapes ScanAllSpells, ScanSpellTomes or
\* GetSpellInfoByFormId (nor the two config parsers, which catch all they
\* throw), whatever bytes the catalog's strings and the identifier hold, the
\* final serialization included.
NoExceptionEscapes ==
    /\ scanReturn.kind # "exception"
    /\ lkReturn.kind # "exception"


(***************************************************************************)
(* Skill-tier driver: GetSkillLevelName applied to a minimum skill.        *)
(***************************************************************************)
MaxSkill == 120

\* Every value up to MaxSkill, and two large ones.
SkillValues == 0..MaxSkill \cup {500, 2147483647}

InitSkill ==
    /\ sklPc = "call"
    /\ sklMinimumSkill \in SkillValues
    /\ sklResult = "Novice"
    /\ SanIdle
    /\ ClsIdle
    /\ CfgIdle
    /\ ScanIdle
    /\ LkIdle
    /\ ThIdle

GetSkillLevelNameCall ==
    /\ sklPc = "call"
    /\ sklResult' = GetSkillLevelName(sklMinimumSkill)
    /\ sklPc' = "returned"
    /\ UNCHANGED <<sklMinimumSkill, sanVars, clsVars, cfgVars, scanVars, lkVars, thVars>>

NextSkill == GetSkillLevelNameCall

SpecSkill == InitSkill /\ [][NextSkill]_vars

\* The tier of the listed boundary values.
ListedTier(m) ==
    CASE m = 24 -> "Novice"
      [] m = 25 -> "Apprentice"
      [] m = 49 -> "Apprentice"
      [] m = 50 -> "Adept"
      [] m = 74 -> "Adept"
      [] m = 75 -> "Expert"
      [] m = 99 -> "Expert"
      [] m = 100 -> "Master"
      [] m = 500 -> "Master"

\* C17: GetSkillLevelName maps m < 25 to Novice, 25 <= m < 50 to Apprentice,
\* 50 <= m < 75 to Adept, 75 <= m < 100 to Expert and m >= 100 to Master;
\* 24, 25, 49, 50, 74, 75, 99, 100 and 500 fall as listed.
SkillTiersHaveHalfOpenBoundaries ==
    sklPc = "returned" =>
        /\ sklResult = "Novice" <=> sklMinimumSkill < 25
        /\ sklResult = "Apprentice" <=> 25 <= sklMinimumSkill /\ sklMinimumSkill < 50
        /\ sklResult = "Adept" <=> 50 <= sklMinimumSkill /\ sklMinimumSkill < 75
        /\ sklResult = "Expert" <=> 75 <= sklMinimumSkill /\ sklMinimumSkill < 100
        /\ sklResult = "Master" <=> sklMinimumSkill >= 100
        /\ sklMinimumSkill \in {24, 25, 49, 50, 74, 75, 99, 100, 500} =>
              sklResult = ListedTier(sklMinimumSkill)

\* The boundary value 100 has been named Master.
SkillHundredIsMaster ==
    /\ sklPc = "returned"
    /\ sklMinimumSkill = 100
    /\ sklResult = "Master"


(***************************************************************************)
(* Further properties of the scans                                         *)
(***************************************************************************)
\* The records collected so far and, once returned, those of the document.
EmittedRecords ==
    {spellArray[r] : r \in DOMAIN spellArray}
    \cup (IF scanReturn.kind = "document"
          THEN {scanReturn.document.spells[r] : r \in DOMAIN scanReturn.document.spells}
          ELSE {})

\* C18: whatever the FieldConfig, no record of either scan holds both
\* "effects" and "effectNames": with the effects flag set a record holds
\* effects only, with effects unset and effectNames set it holds effectNames
\* only, with both unset it holds neither.
EffectsExcludeEffectNames ==
    \A rec \in EmittedRecords :
        /\ ~("effects" \in DOMAIN rec /\ "effectNames" \in DOMAIN rec)
        /\ "effects" \in DOMAIN rec <=> scanConfig.fields.effects
        /\ "effectNames" \in DOMAIN rec <=>
              ~scanConfig.fields.effects /\ scanConfig.fields.effectNames

\* A scan with both flags set has returned records, each holding effects and
\* no effectNames.
BothFlagsSetScanDone ==
    /\ scanPc = "returned"
    /\ scanConfig.fields.effects
    /\ scanConfig.fields.effectNames
    /\ scanReturn.kind = "document"
    /\ Len(scanReturn.document.spells) >= 2
    /\ \A r \in DOMAIN scanReturn.document.spells :
          /\ "effects" \in DOMAIN scanReturn.document.spells[r]
          /\ "effectNames" \notin DOMAIN scanReturn.document.spells[r]


\* The entries the full-scan loop has visited whose verdict is one of vs.
VisitedWithVerdict(vs) ==
    {i \in 1..(scanPos - 1) : FullScanVerdict(allSpells[i]) \in vs}

\* C20: in the full scan an entity is counted as skipped only when its kind
\* is not spell or its editorId or name is absent or empty; an entity
\* rejected because its first effect yields no school is counted as
\* filtered, like the ones the other filters reject.
NoSchoolCountsAsFiltered ==
    scanMode = "full" /\ scanPc \in {"loop", "wrap", "returned"} /\ dataHandler =>
        /\ counters.skippedCount = Cardinality(VisitedWithVerdict({"notSpell", "unnamed"}))
        /\ counters.filteredCount =
              Cardinality(VisitedWithVerdict({"formIdName", "hexName", "nonPlayer",
                                              "noSchool", "highCost", "noValidEffect"}))


(***************************************************************************)
(* Concurrent scans: two threads, each inside ScanAllSpells or             *)
(* ScanSpellTomes, over one catalog.  A thread's locals (records, position,*)
(* seenSpellIds, time) are its own.  std::gmtime returns a pointer to a tm *)
(* the C library owns: one per thread in some libraries, one for the whole *)
(* process in others.                                                      *)
(***************************************************************************)
MaxClock == 1

ThreadSpells == WithFormIds(<<spellFlames, spellNoEditorId, spellHealing>>)
ThreadBooks ==
    WithBookFormIds(<<MkBook(nameTome, TRUE, spellFlames), MkBook(nameTome, FALSE, spellFlames),
                      MkBook(<<>>, TRUE, spellFlames), MkBook(nameTome, TRUE, spellUnnamed),
                      MkBook(nameTome, TRUE, spellHealing)>>)

\* The tm std::gmtime fills for a thread.
TmBufferOf(t) == IF tmPerThread THEN t ELSE 1

\* std::put_time(tm, "%Y-%m-%dT%H:%M:%SZ") for a tm holding the given second.
FormatTm(sec) == SubSeq(ScanTimestamp, 1, 18) \o <<48 + sec>> \o Str(<<"Z">>)

InitThreads ==
    /\ clock = 0
    /\ tmPerThread \in BOOLEAN
    /\ thPc = [t \in Threads |-> "loop"]
    /\ thMode \in [Threads -> {"full", "tome"}]
    /\ thConfig \in [Threads -> SomeScanConfigs]
    /\ thPos = [t \in Threads |-> 1]
    /\ thSpellArray = [t \in Threads |-> <<>>]
    /\ thSeen = [t \in Threads |-> {}]
    /\ thTime = [t \in Threads |-> 0]
    /\ thTm = [t \in Threads |-> 0]
    /\ thReturn = [t \in Threads |-> [kind |-> "pending"]]
    /\ scanPc = "idle"
    /\ scanMode = "full"
    /\ scanConfig = DefaultScanConfig
    /\ dataHandler = TRUE
    /\ allSpells = ThreadSpells
    /\ allBooks = ThreadBooks
    /\ scanPos = 1
    /\ spellArray = <<>>
    /\ seenSpellIds = {}
    /\ counters = NoCounts
    /\ scanReturn = [kind |-> "pending"]
    /\ SanIdle
    /\ ClsIdle
    /\ CfgIdle
    /\ LkIdle
    /\ SklIdle

threadOtherVars == <<sanVars, clsVars, cfgVars, scanVars, lkVars, sklVars>>
threadCallVars == <<tmPerThread, thMode, thConfig>>

ThFullAt(t) ==
    /\ thPc[t] = "loop"
    /\ thMode[t] = "full"
    /\ thPos[t] <= Len(allSpells)

ThTomeAt(t, verdicts) ==
    /\ thPc[t] = "loop"
    /\ thMode[t] = "tome"
    /\ thPos[t] <= Len(allBooks)
    /\ TomeScanVerdict(allBooks[thPos[t]], thSeen[t]) \in verdicts

\* One iteration of ScanSpellsToJson's loop that ends in a continue.
ThFullReject(t) ==
    /\ ThFullAt(t)
    /\ FullScanVerdict(allSpells[thPos[t]]) # "keep"
    /\ thPos' = [thPos EXCEPT ![t] = @ + 1]
    /\ UNCHANGED <<clock, threadCallVars, thPc, thSpellArray, thSeen, thTime, thTm, thReturn,
                   threadOtherVars>>

ThFullKeep(t) ==
    /\ ThFullAt(t)
    /\ FullScanVerdict(allSpells[thPos[t]]) = "keep"
    /\ thSpellArray' = [thSpellArray EXCEPT
                          ![t] = Append(@, FullSpellJson(allSpells[thPos[t]], thConfig[t].fields))]
    /\ thPos' = [thPos EXCEPT ![t] = @ + 1]
    /\ UNCHANGED <<clock, threadCallVars, thPc, thSeen, thTime, thTm, thReturn,
                   threadOtherVars>>

\* One iteration of ScanSpellTomes' loop before the insert: no taught spell,
\* or one already seen.
ThTomeSkip(t) ==
    /\ ThTomeAt(t, {"noSpell", "duplicate"})
    /\ thPos' = [thPos EXCEPT ![t] = @ + 1]
    /\ UNCHANGED <<clock, threadCallVars, thPc, thSpellArray, thSeen, thTime, thTm, thReturn,
                   threadOtherVars>>

\* The spell is new: it is recorded as seen, then skipped.
ThTomeSkipNew(t) ==
    /\ ThTomeAt(t, {"unnamed", "noSchool"})
    /\ thSeen' = [thSeen EXCEPT ![t] = @ \cup {allBooks[thPos[t]].spell.formId}]
    /\ thPos' = [thPos EXCEPT ![t] = @ + 1]
    /\ UNCHANGED <<clock, threadCallVars, thPc, thSpellArray, thTime, thTm, thReturn,
                   threadOtherVars>>

ThTomeKeep(t) ==
    /\ ThTomeAt(t, {"keep"})
    /\ thSeen' = [thSeen EXCEPT ![t] = @ \cup {allBooks[thPos[t]].spell.formId}]
    /\ thSpellArray' = [thSpellArray EXCEPT
                          ![t] = Append(@, TomeSpellJson(allBooks[thPos[t]], thConfig[t].fields))]
    /\ thPos' = [thPos EXCEPT ![t] = @ + 1]
    /\ UNCHANGED <<clock, threadCallVars, thPc, thTime, thTm, thReturn, threadOtherVars>>

\* system_clock::now(), to_time_t and std::gmtime(&time), which fills the tm.
ThGmtime(t) ==
    /\ thPc[t] = "loop"
    /\ thPos[t] > Len(IF thMode[t] = "full" THEN allSpells ELSE allBooks)
    /\ thTime' = [thTime EXCEPT ![t] = clock]
    /\ thTm' = [thTm EXCEPT ![TmBufferOf(t)] = clock]
    /\ thPc' = [thPc EXCEPT ![t] = "wrap"]
    /\ UNCHANGED <<clock, threadCallVars, thPos, thSpellArray, thSeen, thReturn,
                   threadOtherVars>>

\* The document of a thread's call, stamped with the given text.
ThreadDocument(t, records, stamp) ==
    IF thMode[t] = "full"
    THEN [FullScanDocument(records, thConfig[t]) EXCEPT !.scanTimestamp = stamp]
    ELSE [TomeScanDocument(records, thConfig[t]) EXCEPT !.scanTimestamp = stamp]

\* ss << std::put_time(tm, ...), which reads the tm; the output object; dump.
ThReturn(t) ==
    /\ thPc[t] = "wrap"
    /\ thReturn' = [thReturn EXCEPT
                      ![t] = Dumped(ThreadDocument(t, thSpellArray[t],
                                                   FormatTm(thTm[TmBufferOf(t)])))]
    /\ thPc' = [thPc EXCEPT ![t] = "returned"]
    /\ UNCHANGED <<clock, threadCallVars, thPos, thSpellArray, thSeen, thTime, thTm,
                   threadOtherVars>>

\* A second passes.
Tick ==
    /\ clock < MaxClock
    /\ clock' = clock + 1
    /\ UNCHANGED <<threadCallVars, thPc, thPos, thSpellArray, thSeen, thTime, thTm, thReturn,
                   threadOtherVars>>

NextThreads ==
    \/ \E t \in Threads : ThFullReject(t)
    \/ \E t \in Threads : ThFullKeep(t)
    \/ \E t \in Threads : ThTomeSkip(t)
    \/ \E t \in Threads : ThTomeSkipNew(t)
    \/ \E t \in Threads : ThTomeKeep(t)
    \/ \E t \in Threads : ThGmtime(t)
    \/ \E t \in Threads : ThReturn(t)
    \/ Tick

SpecThreads == InitThreads /\ [][NextThreads]_vars


(***************************************************************************)
(* Properties of concurrent scans                                          *)
(***************************************************************************)
RECURSIVE FullRecordsAlone(_, _, _)
\* The records a full scan run alone collects from entry i on.
FullRecordsAlone(i, fields, records) ==
    IF i > Len(allSpells) THEN records
    ELSE FullRecordsAlone(i + 1, fields,
            IF FullScanVerdict(allSpells[i]) = "keep"
            THEN Append(records, FullSpellJson(allSpells[i], fields))
            ELSE records)

RECURSIVE TomeRecordsAlone(_, _, _, _)
\* The records a tome scan run alone collects from book i on.
TomeRecordsAlone(i, fields, seen, records) ==
    IF i > Len(allBooks) THEN records
    ELSE LET verdict == TomeScanVerdict(allBooks[i], seen) IN
         TomeRecordsAlone(i + 1, fields,
            IF verdict \in {"noSpell", "duplicate"} THEN seen
            ELSE seen \cup {allBooks[i].spell.formId},
            IF verdict = "keep" THEN Append(records, TomeSpellJson(allBooks[i], fields))
            ELSE records)

\* What the call of thread t returns when it runs alone and reads the clock
\* at the second thread t read it.
ReturnedAlone(t) ==
    Dumped(ThreadDocument(t,
                          IF thMode[t] = "full"
                          THEN FullRecordsAlone(1, thConfig[t].fields, <<>>)
                          ELSE TomeRecordsAlone(1, thConfig[t].fields, {}, <<>>),
                          FormatTm(thTime[t])))

\* The ids of the spells taught by the books thread t has visited.
TaughtByVisited(t) ==
    {allBooks[i].spell.formId :
        i \in {j \in 1..(thPos[t] - 1) : TomeScanVerdict(allBooks[j], {}) # "noSpell"}}

====
